---- MODULE Spec2Model ----
(***************************************************************************)
(* The rule validation pipeline of the agent-skills build tooling:         *)
(*   - the SQL validator (validate-sql: ensureClickHouse,                  *)
(*     containsDangerousPatterns, validateSQL, validateSQLInRules), in the *)
(*     two versions the sources hold: the hardened script (deny-list and   *)
(*     restricted engine flags) and packages/.../src/validate-sql.ts;      *)
(*   - the external link checker (validateUrl, validateUrlsBatch,          *)
(*     printSummaryTable, checkExternalLinks);                             *)
(*   - the internal link checker (checkLinks).                             *)
(*                                                                         *)
(* Text is modelled as a sequence of lexical units ("tokens"): a word, a   *)
(* punctuation mark, a comment delimiter, a white-space character.         *)
(***************************************************************************)
EXTENDS Integers, Sequences, FiniteSets, TLC

VARIABLES
    \* ---- SQL validator (validateSQLInRules and validateSQL) ----
    script,            \* which validate-sql script is run
    platform,          \* process.platform
    binary,            \* the file at CLICKHOUSE_BINARY: absent | partial | present
    pc,                \* position in validateSQLInRules / validateSQL
    filesRead,         \* rule files the for-loop has started
    examplesRead,      \* examples the inner for-loop has visited (all files)
    file,              \* the rule file being processed (its number)
    example,           \* the example being processed
    totalSQLExamples,  \* let totalSQLExamples
    allErrors,         \* const allErrors: SQLValidationError[]
    exitCode,          \* <<status>> once the process has exited
    console,           \* the kinds of message written so far
    dangerousPattern,  \* validateSQL: const dangerousPattern
    tmpFiles,          \* temporary files that exist
    engine,            \* command lines of the engine subprocesses now running
    execOut,           \* what execAsync resolved with, or that it rejected
    returned,          \* the value validateSQL returned for the current example
    hist,              \* history of the run, read only by the properties
    \* ---- containsDangerousPatterns / validateSQL as functions of a snippet ----
    sql,               \* the snippet
    verdict,           \* what validateSQL did with it
    \* ---- external link checker (validateUrl) ----
    upc,               \* position in validateUrl
    attempt,           \* for (let attempt = 0; ...)
    retriesUsed,       \* let retriesUsed
    lastError,         \* let lastError
    lastStatusCode,    \* let lastStatusCode
    requests,          \* requests sent in the current attempt, in order
    response,          \* the response (or failure) of the latest request
    result,            \* the LinkCheckResult returned
    uhist,             \* history of the probing, read only by the properties
    \* ---- external link checker (checkExternalLinks, validateUrlsBatch) ----
    lpc,               \* position in checkExternalLinks / validateUrlsBatch
    scanned,           \* files the scanning loop has read
    linkMap,           \* const linkMap: the LinkInfo values, in insertion order
    batchAt,           \* validateUrlsBatch: let i
    checks,            \* the promises of the current batch, in the order of batch
    results,           \* validateUrlsBatch: const results
    table,             \* printSummaryTable: const sortedResults
    lexit,             \* <<status>> once checkExternalLinks has ended
    lhist,             \* history of the run, read only by the properties
    \* ---- internal link checker (checkLinks) ----
    ipc,               \* position in checkLinks
    ruleFiles,         \* const ruleFiles
    ifile,             \* the rule file being read (its index in ruleFiles)
    link,              \* the link being checked
    linksRead,         \* links visited so far (all files)
    linkErrors,        \* checkLinks: const allErrors
    iexit,             \* <<status>> once checkLinks has ended
    ihist,             \* history of the run, read only by the properties
    \* ---- structural validator (validate.ts) ----
    vpc,               \* position in the validator
    rule,              \* the parsed rule being validated
    rulesRead,         \* rule files read so far
    violations,        \* the violations accumulated, in the order found
    vexit,             \* <<status>> once the validator has ended
    vhist,             \* history of the run, read only by the properties
    \* ---- compiler (build.ts) ----
    bpc,               \* position in the build
    rulesDir,          \* the rule files of the rules directory
    version,           \* the version stored in metadata.json
    upgrade,           \* the build was invoked with --upgrade-version
    listing,           \* the rule files in the order the directory listing gave them
    document,          \* the compiled document last written
    bexit,             \* <<status>> once the build has ended
    bhist              \* the builds so far, read only by the properties

sqlVars == <<script, platform, binary, pc, filesRead, examplesRead, file, example,
             totalSQLExamples, allErrors, exitCode, console, dangerousPattern,
             tmpFiles, engine, execOut, returned, hist>>
denyVars == <<sql, verdict>>
urlVars == <<upc, attempt, retriesUsed, lastError, lastStatusCode, requests,
             response, result, uhist>>
linkVars == <<lpc, scanned, linkMap, batchAt, checks, results, table, lexit, lhist>>
internalVars == <<ipc, ruleFiles, ifile, link, linksRead, linkErrors, iexit, ihist>>
validateVars == <<vpc, rule, rulesRead, violations, vexit, vhist>>
buildVars == <<bpc, rulesDir, version, upgrade, listing, document, bexit, bhist>>
checkerVars == <<linkVars, internalVars, validateVars, buildVars>>
vars == <<sqlVars, denyVars, urlVars, linkVars, internalVars, validateVars, buildVars>>

(***************************************************************************)
(* Bounds of the model.                                                    *)
(***************************************************************************)
MaxSqlLen == 5      \* tokens in a snippet given to containsDangerousPatterns
MaxFiles == 2       \* rule files in RULES_DIR
MaxExamples == 3    \* examples visited in one run, over all files
MaxScanFiles == 2   \* files checkExternalLinks scans
MaxRuleFiles == 2   \* names readdir lists for checkLinks
MaxLinks == 3       \* links checkLinks reads, all rule files together

(***************************************************************************)
(* Values.                                                                 *)
(***************************************************************************)
Null == <<"null">>            \* JavaScript null / undefined
NotExited == <<>>             \* exitCode while the process lives; <<c>> after exit(c)
Truthy(v) == v # Null /\ v # <<>>

Range(s) == {s[i] : i \in 1..Len(s)}

\* the sequences over S of length at most n
SeqsUpTo(S, n) == UNION {[1..k -> S] : k \in 0..n}

(***************************************************************************)
(* Text.                                                                   *)
(***************************************************************************)
\* \s of a JavaScript regular expression
WhiteSpace == {" ", "\n"}
\* \w: the tokens that are words (letters, digits, underscore)
WordTokens == {"file", "THROWIF", "throwIf", "x", "sleep", "url", "s3", "mysql",
               "postgresql", "mongodb", "hdfs", "odbc", "jdbc", "executable",
               "remote", "cluster", "input"}
IsWord(t) == t \in WordTokens

\* the /i flag: the text and the pattern are compared with case folded
Lower(t) ==
    CASE t = "THROWIF" -> "throwif"
      [] t = "throwIf" -> "throwif"
      [] OTHER -> t

\* String.prototype.trim
RECURSIVE TrimLeft(_)
TrimLeft(s) ==
    IF s # <<>> /\ Head(s) \in WhiteSpace THEN TrimLeft(Tail(s)) ELSE s
RECURSIVE TrimRight(_)
TrimRight(s) ==
    IF s # <<>> /\ s[Len(s)] \in WhiteSpace
    THEN TrimRight(SubSeq(s, 1, Len(s) - 1)) ELSE s
Trim(s) == TrimRight(TrimLeft(s))

\* the first position of token t in s, or 0
FirstIndex(s, t) ==
    IF \E i \in 1..Len(s) : s[i] = t
    THEN CHOOSE i \in 1..Len(s) : s[i] = t /\ \A j \in 1..(i - 1) : s[j] # t
    ELSE 0

\* s from position i on
From(s, i) == SubSeq(s, i, Len(s))

(***************************************************************************)
(* containsDangerousPatterns (hardened script).                            *)
(***************************************************************************)
\* .replace(/\/\*[\s\S]*?\*\//g, ' '): each "/*" up to the first "*/" after it
RECURSIVE RemoveBlockComments(_)
RemoveBlockComments(s) ==
    IF s = <<>> THEN <<>>
    ELSE IF Head(s) = "/*" /\ FirstIndex(Tail(s), "*/") # 0
         THEN <<" ">> \o RemoveBlockComments(From(Tail(s), FirstIndex(Tail(s), "*/") + 1))
         ELSE <<Head(s)>> \o RemoveBlockComments(Tail(s))

\* .replace(/--[^\n]*/g, ' '): each "--" up to, not including, the line break
RECURSIVE RemoveLineComments(_)
RemoveLineComments(s) ==
    IF s = <<>> THEN <<>>
    ELSE IF Head(s) = "--"
         THEN IF FirstIndex(Tail(s), "\n") = 0
              THEN <<" ">>
              ELSE <<" ">> \o RemoveLineComments(From(Tail(s), FirstIndex(Tail(s), "\n")))
         ELSE <<Head(s)>> \o RemoveLineComments(Tail(s))

\* .replace(/\s+/g, ' ')
RECURSIVE NormalizeWhitespace(_)
NormalizeWhitespace(s) ==
    IF s = <<>> THEN <<>>
    ELSE IF Head(s) \in WhiteSpace
         THEN <<" ">> \o NormalizeWhitespace(TrimLeft(s))
         ELSE <<Head(s)>> \o NormalizeWhitespace(Tail(s))

sqlNoComments(s) == NormalizeWhitespace(RemoveLineComments(RemoveBlockComments(s)))

\* const dangerous = [...]: the function names of the patterns, in order
dangerous ==
    << [name |-> "file",       description |-> "file() table function (file system access)"],
       [name |-> "url",        description |-> "url() table function (HTTP access)"],
       [name |-> "s3",         description |-> "s3() table function (cloud storage access)"],
       [name |-> "mysql",      description |-> "mysql() table function (database access)"],
       [name |-> "postgresql", description |-> "postgresql() table function (database access)"],
       [name |-> "mongodb",    description |-> "mongodb() table function (database access)"],
       [name |-> "hdfs",       description |-> "hdfs() table function (HDFS access)"],
       [name |-> "odbc",       description |-> "odbc() table function (ODBC access)"],
       [name |-> "jdbc",       description |-> "jdbc() table function (JDBC access)"],
       [name |-> "executable", description |-> "executable() table function (command execution)"],
       [name |-> "remote",     description |-> "remote() table function (remote server access)"],
       [name |-> "cluster",    description |-> "cluster() table function (cluster access)"],
       [name |-> "input",      description |-> "input() table function (stdin access)"],
       [name |-> "sleep",      description |-> "sleep() function (timing attack vector)"],
       [name |-> "throwIf",    description |-> "throwIf() function (error-based exfiltration)"] >>

\* s from position i on is \s*\(
RECURSIVE OpensCall(_, _)
OpensCall(s, i) ==
    /\ i <= Len(s)
    /\ \/ s[i] = "("
       \/ s[i] \in WhiteSpace /\ OpensCall(s, i + 1)

\* the /i flag dropped: the text must be written as the pattern is
PatternTestCaseSensitive(name, s) ==
    \E i \in 1..Len(s) :
        /\ s[i] = name
        /\ (i = 1 \/ ~IsWord(s[i - 1]))
        /\ OpensCall(s, i + 1)

\* /\bNAME\s*\(/i .test(s)
PatternTest(name, s) ==
    \E i \in 1..Len(s) :
        /\ Lower(s[i]) = Lower(name)
        /\ (i = 1 \/ ~IsWord(s[i - 1]))
        /\ OpensCall(s, i + 1)

\* the first pattern of the list that matches text n, or 0
FirstPattern(n) ==
    LET hits == {k \in 1..Len(dangerous) : PatternTest(dangerous[k].name, n)}
    IN IF hits = {} THEN 0 ELSE CHOOSE k \in hits : \A j \in hits : k <= j

\* for (const { pattern, description } of dangerous) if (pattern.test(...)) return ...
containsDangerousPatterns(s) ==
    LET k == FirstPattern(sqlNoComments(s))
    IN IF k = 0 THEN Null
       ELSE <<"Security: SQL contains dangerous pattern: ", dangerous[k].description>>

(***************************************************************************)
(* The SQL validator: inputs.                                              *)
(***************************************************************************)
\* the two validate-sql scripts of the sources
Hardened == "part_010"
Plain == "validate-sql.ts"
Scripts == {Hardened, Plain}

Platforms == {"darwin", "linux", "win32"}

\* example.language when the fence declares none
NoLanguage == ""
Languages == {NoLanguage, "sql", "typescript"}

\* example.code: empty, white space only, a harmless statement, and a call of a
\* deny-listed function with a comment before its parenthesis
CodeEmpty == <<>>
CodeBlank == <<"\n", " ">>
CodeSafe == <<"x">>
CodeDangerous == <<"file", "/*", "*/", "(">>
Codes == {CodeEmpty, CodeBlank, CodeSafe, CodeDangerous}

Examples == [code : Codes, language : Languages]
NoExample == [code |-> <<>>, language |-> "no example"]

\* what one run of the engine writes to its standard error, and its exit status
EngineRuns ==
    { [stderr |-> <<>>, status |-> 0],
      [stderr |-> <<"other", "\n">>, status |-> 0],
      [stderr |-> <<"Code:", "Exception", "\n">>, status |-> 1],
      [stderr |-> <<"Error", "\n">>, status |-> 1] }

\* String.prototype.includes on a text of words
Includes(text, word) == word \in Range(text)

(***************************************************************************)
(* ensureClickHouse.                                                       *)
(***************************************************************************)
\* getPlatform
getPlatform(p) ==
    IF p = "darwin" THEN "macos" ELSE IF p = "linux" THEN "linux" ELSE "unsupported"

\* getDownloadUrl
getDownloadUrl(p) ==
    IF getPlatform(p) = "macos" THEN <<"clickhouse-macos">>
    ELSE IF getPlatform(p) = "linux" THEN <<"clickhouse">>
    ELSE Null

\* how mkdir, curl and chmod can end, and the file each leaves at CLICKHOUSE_BINARY
Downloads == {"ok", "mkdir fails", "curl fails, no file", "curl fails, partial file",
              "chmod fails"}
FileAfterDownload(d) ==
    CASE d = "ok" -> "present"
      [] d = "mkdir fails" -> "absent"
      [] d = "curl fails, no file" -> "absent"
      [] d = "curl fails, partial file" -> "partial"
      [] d = "chmod fails" -> "partial"

(***************************************************************************)
(* validateSQL: the engine command and child_process.exec.                 *)
(***************************************************************************)
RestrictedFlags ==
    {"--readonly=2", "--allow_introspection_functions=0", "--allow_ddl=0",
     "--max_execution_time=10", "--max_memory_usage=100000000",
     "--max_rows_to_read=1000000", "--user_files_path=/dev/null",
     "--format_schema_path=/dev/null"}

\* the command line validateSQL of the hardened script gives to execAsync
CommandHardened ==
    [flags |-> {"--query-file", "--output-format Null"} \cup RestrictedFlags,
     stderrToStdout |-> TRUE, orTrue |-> TRUE]

\* the command line validateSQL of validate-sql.ts gives to execAsync
CommandPlain ==
    [flags |-> {"--query", "--output-format Null"},
     stderrToStdout |-> TRUE, orTrue |-> TRUE]

EngineCommand(s) == IF s = Hardened THEN CommandHardened ELSE CommandPlain

\* promisify(exec): the shell runs the command line; with "2>&1" the child's
\* standard error is written to the standard output pipe, with "|| true" the
\* status is 0; exec rejects on a non-zero status
ExecAsync(cmd, run) ==
    [rejected |-> (run.status # 0 /\ ~cmd.orTrue),
     stdout |-> IF cmd.stderrToStdout THEN run.stderr ELSE <<>>,
     stderr |-> IF cmd.stderrToStdout THEN <<>> ELSE run.stderr]

ExecRejected == [rejected |-> TRUE, stdout |-> <<>>, stderr |-> <<>>]
NoExec == [rejected |-> FALSE, stdout |-> <<>>, stderr |-> <<>>]

\* validateSQL, after execAsync: the try body's return value, or the catch's
ValidateSQLResult(out) ==
    IF out.rejected THEN <<"Command failed">>
    ELSE IF out.stderr # <<>> /\ (Includes(out.stderr, "Exception") \/ Includes(out.stderr, "Error"))
         THEN Trim(out.stderr)
         ELSE Null

\* the condition without its test of the declared language
IsExampleWithCode(ex) ==
    /\ ex.code # <<>>
    /\ Trim(ex.code) # <<>>

\* the condition under which validateSQLInRules validates an example
IsSQLExample(ex) ==
    /\ ex.code # <<>>
    /\ Trim(ex.code) # <<>>
    /\ (ex.language = "sql" \/ ex.language = NoLanguage)

(***************************************************************************)
(* validateSQLInRules and validateSQL: the state machine.                  *)
(***************************************************************************)
NoHistory ==
    [hasClickHouse |-> FALSE,   \* ensureClickHouse returned true
     acquisition |-> "none",    \* how ensureClickHouse ended
     eligible |-> 0,            \* examples visited that are SQL examples with code
     listed |-> FALSE,          \* the for-loop over ruleFiles has ended
     parseErrors |-> {},        \* files whose parseRuleFile threw
     calls |-> 0,               \* calls of validateSQL
     called |-> FALSE,          \* validateSQL was called for the current example
     denyChecked |-> FALSE,     \* ... and ran containsDangerousPatterns
     tmpCreated |-> FALSE,      \* ... and wrote its temporary file
     submitted |-> FALSE,       \* ... and started the engine on it
     engineSaid |-> <<>>,       \* ... and the engine wrote this to stderr
     rmAttempted |-> FALSE]     \* ... and ran rm -f on the temporary file

\* an example with code that is not blank, declared as SQL or with no language
SqlEligible(ex) ==
    /\ \E i \in 1..Len(ex.code) : ex.code[i] \notin WhiteSpace
    /\ ex.language \in {NoLanguage, "sql"}
Counted(ex) == IF SqlEligible(ex) THEN 1 ELSE 0

PerExample(h) ==
    [h EXCEPT !.called = FALSE, !.denyChecked = FALSE, !.tmpCreated = FALSE,
              !.submitted = FALSE, !.engineSaid = <<>>, !.rmAttempted = FALSE]

\* the temporary file of the current call (Date.now() in its name)
tmpFile == hist.calls

ParkedDeny == sql = <<>> /\ verdict = "parked"
ParkedLinks ==
    /\ lpc = "parked" /\ scanned = 0 /\ linkMap = <<>> /\ batchAt = 0 /\ checks = <<>>
    /\ results = <<>> /\ table = <<>> /\ lexit = <<>> /\ lhist = <<>>
ParkedInternal ==
    /\ ipc = "parked" /\ ruleFiles = <<>> /\ ifile = 0 /\ link = <<>> /\ linksRead = 0
    /\ linkErrors = <<>> /\ iexit = <<>> /\ ihist = <<>>
ParkedValidate ==
    /\ vpc = "parked" /\ rule = <<>> /\ rulesRead = 0 /\ violations = <<>>
    /\ vexit = <<>> /\ vhist = <<>>
ParkedBuild ==
    /\ bpc = "parked" /\ rulesDir = {} /\ version = <<>> /\ upgrade = FALSE
    /\ listing = <<>> /\ document = <<>> /\ bexit = <<>> /\ bhist = <<>>
ParkedCheckers == ParkedLinks /\ ParkedInternal /\ ParkedValidate /\ ParkedBuild
ParkedUrl ==
    /\ upc = "parked" /\ attempt = 0 /\ retriesUsed = 0 /\ lastError = ""
    /\ lastStatusCode = 0 /\ requests = <<>> /\ response = <<>> /\ result = <<>>
    /\ uhist = <<>>

InitSQL ==
    /\ script \in Scripts
    /\ binary \in {"absent", "present"}
    /\ platform \in Platforms
    /\ pc = "start"
    /\ filesRead = 0
    /\ examplesRead = 0
    /\ file = 0
    /\ example = NoExample
    /\ totalSQLExamples = 0
    /\ allErrors = <<>>
    /\ exitCode = NotExited
    /\ console = {}
    /\ dangerousPattern = Null
    /\ tmpFiles = {}
    /\ engine = <<>>
    /\ execOut = NoExec
    /\ returned = Null
    /\ hist = NoHistory

Init == InitSQL /\ ParkedDeny /\ ParkedUrl /\ ParkedCheckers

loopVars == <<filesRead, examplesRead, file, example, totalSQLExamples, allErrors>>
callVars == <<dangerousPattern, tmpFiles, engine, execOut, returned>>
envVars == <<script, platform, denyVars, urlVars, checkerVars>>

\* ensureClickHouse: stat succeeds
EnsureFound ==
    /\ pc = "start"
    /\ binary # "absent"
    /\ console' = console \cup {"Validating", "binary found"}
    /\ hist' = [hist EXCEPT !.hasClickHouse = TRUE, !.acquisition = "found"]
    /\ pc' = "readdir"
    /\ UNCHANGED <<binary, exitCode, loopVars, callVars, envVars>>

\* ensureClickHouse: no binary and no download URL for the platform
EnsureUnsupported ==
    /\ pc = "start"
    /\ binary = "absent"
    /\ getDownloadUrl(platform) = Null
    /\ console' = console \cup {"Validating", "Downloading", "Unsupported platform"}
    /\ hist' = [hist EXCEPT !.acquisition = "unsupported platform"]
    /\ pc' = "skip"
    /\ UNCHANGED <<binary, exitCode, loopVars, callVars, envVars>>

\* ensureClickHouse: mkdir, curl, chmod
EnsureDownload ==
    /\ pc = "start"
    /\ binary = "absent"
    /\ getDownloadUrl(platform) # Null
    /\ \E d \in Downloads :
        /\ binary' = FileAfterDownload(d)
        /\ IF d = "ok"
           THEN /\ console' = console \cup {"Validating", "Downloading", "binary downloaded"}
                /\ hist' = [hist EXCEPT !.hasClickHouse = TRUE, !.acquisition = "downloaded"]
                /\ pc' = "readdir"
           ELSE /\ console' = console \cup {"Validating", "Downloading", "Failed to download"}
                /\ hist' = [hist EXCEPT !.acquisition = "download failed"]
                /\ pc' = "skip"
    /\ UNCHANGED <<exitCode, loopVars, callVars, envVars>>

\* the exit status validateSQLInRules gives when the binary is not available
SkipStatusFailure == <<1>>
SkipStatus == <<0>>

\* if (!hasClickHouse) { console.warn(...); process.exit(0) }
SkipValidation ==
    /\ pc = "skip"
    /\ console' = console \cup {"Skipping SQL validation"}
    /\ exitCode' = SkipStatus
    /\ pc' = "exited"
    /\ UNCHANGED <<binary, hist, loopVars, callVars, envVars>>

\* readdir(RULES_DIR) and the filter; when it throws, the outer catch
ReadRulesDir ==
    /\ pc = "readdir"
    /\ \E ok \in BOOLEAN :
        IF ok
        THEN /\ pc' = "files"
             /\ UNCHANGED <<console, exitCode>>
        ELSE /\ console' = console \cup {"SQL validation failed:"}
             /\ exitCode' = <<1>>
             /\ pc' = "exited"
    /\ UNCHANGED <<binary, hist, loopVars, callVars, envVars>>

\* console.error(`Error processing ${file}:`, error): the message names the file
ErrorProcessing(f) ==
    CASE f = 1 -> "Error processing file 1:"
      [] f = 2 -> "Error processing file 2:"
      [] f = 3 -> "Error processing file 3:"
      [] OTHER -> "Error processing a later file:"

\* a variant of the inner catch that ends the loop over the rule files
AfterFileErrorStops == "report"

\* } catch (error) { console.error(...) } closes the body of the for-loop over
\* ruleFiles: control goes on to the next file
AfterFileError == "files"

\* for (const file of ruleFiles): the next file; parseRuleFile returns or throws
NextFile ==
    /\ pc = "files"
    /\ filesRead < MaxFiles
    /\ filesRead' = filesRead + 1
    /\ file' = filesRead + 1
    /\ \E parsed \in BOOLEAN :
        IF parsed
        THEN /\ pc' = "examples"
             /\ UNCHANGED <<console, hist>>
        ELSE /\ console' = console \cup {ErrorProcessing(filesRead + 1)}
             /\ hist' = [hist EXCEPT !.parseErrors = @ \cup {filesRead + 1}]
             /\ pc' = AfterFileError
    /\ UNCHANGED <<binary, exitCode, examplesRead, example, totalSQLExamples,
                   allErrors, callVars, envVars>>

\* for (const file of ruleFiles): no file is left
FilesDone ==
    /\ pc = "files"
    /\ hist' = [hist EXCEPT !.listed = TRUE]
    /\ pc' = "report"
    /\ UNCHANGED <<binary, exitCode, console, loopVars, callVars, envVars>>

\* validateSQL, were it to write the temporary file before anything else
ValidateSQLWritesFirst(s) == "write"

\* where validateSQL starts: the deny-list check, or (validate-sql.ts) the write
ValidateSQLEntry(s) == IF s = Hardened THEN "deny" ELSE "write"

\* for (const example of rule.examples): the next example and its if
NextExample ==
    /\ pc = "examples"
    /\ examplesRead < MaxExamples
    /\ \E ex \in Examples :
        /\ example' = ex
        /\ examplesRead' = examplesRead + 1
        /\ IF IsSQLExample(ex)
           THEN /\ totalSQLExamples' = totalSQLExamples + 1
                /\ hist' = [PerExample(hist) EXCEPT !.calls = @ + 1, !.called = TRUE,
                                                    !.eligible = @ + Counted(ex)]
                /\ pc' = ValidateSQLEntry(script)
           ELSE /\ hist' = [PerExample(hist) EXCEPT !.eligible = @ + Counted(ex)]
                /\ UNCHANGED <<totalSQLExamples, pc>>
    /\ dangerousPattern' = Null
    /\ execOut' = NoExec
    /\ returned' = Null
    /\ UNCHANGED <<binary, exitCode, console, filesRead, file, allErrors, tmpFiles,
                   engine, envVars>>

\* for (const example of rule.examples): no example is left
ExamplesDone ==
    /\ pc = "examples"
    /\ example' = NoExample
    /\ hist' = PerExample(hist)
    /\ dangerousPattern' = Null
    /\ execOut' = NoExec
    /\ returned' = Null
    /\ pc' = "files"
    /\ UNCHANGED <<binary, exitCode, console, filesRead, examplesRead, file,
                   totalSQLExamples, allErrors, tmpFiles, engine, envVars>>

\* validateSQL: const dangerousPattern = containsDangerousPatterns(sql); if ... return
CheckDangerous ==
    /\ pc = "deny"
    /\ dangerousPattern' = containsDangerousPatterns(example.code)
    /\ hist' = [hist EXCEPT !.denyChecked = TRUE]
    /\ IF Truthy(containsDangerousPatterns(example.code))
       THEN /\ returned' = containsDangerousPatterns(example.code)
            /\ pc' = "return"
       ELSE /\ returned' = returned
            /\ pc' = "write"
    /\ UNCHANGED <<binary, exitCode, console, loopVars, tmpFiles, engine, execOut, envVars>>

\* validateSQL: await writeFile(tmpFile, sql, 'utf-8'); when it throws (the file
\* cannot be created) the exception leaves validateSQL and is caught by the
\* try around the file in validateSQLInRules
WriteTmpFile ==
    /\ pc = "write"
    /\ \E written \in BOOLEAN :
        IF written
        THEN /\ tmpFiles' = tmpFiles \cup {tmpFile}
             /\ hist' = [hist EXCEPT !.tmpCreated = TRUE]
             /\ pc' = "exec"
             /\ UNCHANGED <<console, example>>
        ELSE /\ console' = console \cup {ErrorProcessing(file)}
             /\ hist' = PerExample(hist)
             /\ example' = NoExample
             /\ pc' = AfterFileError
             /\ UNCHANGED tmpFiles
    /\ UNCHANGED <<binary, exitCode, filesRead, examplesRead, file, totalSQLExamples,
                   allErrors, dangerousPattern, engine, execOut, returned, envVars>>

\* validateSQL: where control goes from the catch block: the finally block
AfterCatchReturns == "return"
AfterCatch == "finally"

\* validateSQL: execAsync(...) starts the engine, or rejects without starting it
StartEngine ==
    /\ pc = "exec"
    /\ \E spawned \in BOOLEAN :
        IF spawned
        THEN /\ engine' = Append(engine, EngineCommand(script))
             /\ hist' = [hist EXCEPT !.submitted = TRUE]
             /\ pc' = "running"
             /\ UNCHANGED <<execOut, returned>>
        ELSE /\ execOut' = ExecRejected
             /\ returned' = ValidateSQLResult(ExecRejected)
             /\ pc' = AfterCatch
             /\ UNCHANGED <<engine, hist>>
    /\ UNCHANGED <<binary, exitCode, console, loopVars, dangerousPattern, tmpFiles, envVars>>

\* validateSQL: the engine ends; the try body (or the catch) chooses the result
EngineEnds ==
    /\ pc = "running"
    /\ \E run \in EngineRuns :
        /\ execOut' = ExecAsync(engine[1], run)
        /\ returned' = ValidateSQLResult(ExecAsync(engine[1], run))
        /\ hist' = [hist EXCEPT !.engineSaid = run.stderr]
    /\ engine' = Tail(engine)
    /\ pc' = "finally"
    /\ UNCHANGED <<binary, exitCode, console, loopVars, dangerousPattern, tmpFiles, envVars>>

\* validateSQL: finally { try { await execAsync(`rm -f "${tmpFile}"`) } catch {} }
CleanUp ==
    /\ pc = "finally"
    /\ tmpFiles' = tmpFiles \ {tmpFile}
    /\ hist' = [hist EXCEPT !.rmAttempted = TRUE]
    /\ pc' = "return"
    /\ UNCHANGED <<binary, exitCode, console, loopVars, dangerousPattern, engine,
                   execOut, returned, envVars>>

\* where the inner loop goes on after an example's error (or none) is recorded
AfterRecordFailFast(error) == IF Truthy(error) THEN "report" ELSE "examples"
AfterRecord(error) == "examples"

\* const error = await validateSQL(example.code); if (error) allErrors.push(...)
RecordError ==
    /\ pc = "return"
    /\ allErrors' =
         IF Truthy(returned)
         THEN Append(allErrors, [file |-> file, exampleLabel |-> examplesRead,
                                 error |-> returned, sql |-> example.code])
         ELSE allErrors
    /\ pc' = AfterRecord(returned)
    /\ UNCHANGED <<binary, exitCode, console, hist, filesRead, examplesRead, file,
                   example, totalSQLExamples, callVars, envVars>>

\* if (allErrors.length > 0) { ...; process.exit(1) } else { console.log(...) }
Report ==
    /\ pc = "report"
    /\ IF Len(allErrors) > 0
       THEN /\ console' = console \cup {"SQL validation failed"}
            /\ exitCode' = <<1>>
       ELSE /\ console' = console \cup {"All SQL examples are valid"}
            /\ exitCode' = <<0>>
    /\ pc' = "exited"
    /\ UNCHANGED <<binary, hist, loopVars, callVars, envVars>>

Next ==
    \/ EnsureFound
    \/ EnsureUnsupported
    \/ EnsureDownload
    \/ SkipValidation
    \/ ReadRulesDir
    \/ NextFile
    \/ FilesDone
    \/ NextExample
    \/ ExamplesDone
    \/ CheckDangerous
    \/ WriteTmpFile
    \/ StartEngine
    \/ EngineEnds
    \/ CleanUp
    \/ RecordError
    \/ Report

Spec == Init /\ [][Next]_vars

(***************************************************************************)
(* The script run again and again.                                         *)
(***************************************************************************)
\* validateSQLInRules() of a later run: a new process, with the files the
\* earlier runs left on the disk (CLICKHOUSE_BINARY, the temporary files)
NextRun ==
    /\ pc = "exited"
    /\ pc' = "start"
    /\ filesRead' = 0
    /\ examplesRead' = 0
    /\ file' = 0
    /\ example' = NoExample
    /\ totalSQLExamples' = 0
    /\ allErrors' = <<>>
    /\ exitCode' = NotExited
    /\ console' = {}
    /\ dangerousPattern' = Null
    /\ engine' = <<>>
    /\ execOut' = NoExec
    /\ returned' = Null
    /\ hist' = NoHistory
    /\ UNCHANGED <<binary, tmpFiles, envVars>>

NextRuns ==
    \/ EnsureFound
    \/ EnsureUnsupported
    \/ EnsureDownload
    \/ SkipValidation
    \/ ReadRulesDir
    \/ NextFile
    \/ FilesDone
    \/ NextExample
    \/ ExamplesDone
    \/ CheckDangerous
    \/ WriteTmpFile
    \/ StartEngine
    \/ EngineEnds
    \/ CleanUp
    \/ RecordError
    \/ Report
    \/ NextRun

SpecRuns == Init /\ [][NextRuns]_vars

(***************************************************************************)
(* validateSQL as a function of one snippet.                               *)
(***************************************************************************)
\* the tokens snippets are made of: two deny-listed names (the first and the
\* last of the list, the last in upper case), another word, the parenthesis,
\* a line break, the comment delimiters and the string quote
Alphabet == {"file", "THROWIF", "x", "(", "\n", "/*", "*/", "--", "'"}

\* validateSQL: the deny-list check at its head (the hardened script only)
DenyListCheck(s, text) ==
    IF s = Hardened THEN containsDangerousPatterns(text) ELSE Null

\* validateSQL when the check found a pattern: if (dangerousPattern) return ...
Rejected(found) ==
    [returned |-> found, tmpCreated |-> FALSE, submitted |-> FALSE,
     rmAttempted |-> FALSE]

\* validateSQL past the check: writeFile, execAsync (whether the engine was
\* started, and its run), the result, and rm -f in the finally
Submitted(s, spawned, run) ==
    [returned |-> IF spawned
                  THEN ValidateSQLResult(ExecAsync(EngineCommand(s), run))
                  ELSE ValidateSQLResult(ExecRejected),
     tmpCreated |-> TRUE, submitted |-> spawned, rmAttempted |-> TRUE]

NotValidated == [returned |-> Null, tmpCreated |-> FALSE, submitted |-> FALSE,
                 rmAttempted |-> FALSE]

ParkedSQL ==
    /\ script = Hardened /\ platform = "linux" /\ binary = "present"
    /\ pc = "parked" /\ filesRead = 0 /\ examplesRead = 0 /\ file = 0
    /\ example = NoExample /\ totalSQLExamples = 0 /\ allErrors = <<>>
    /\ exitCode = NotExited /\ console = {} /\ dangerousPattern = Null
    /\ tmpFiles = {} /\ engine = <<>> /\ execOut = NoExec /\ returned = Null
    /\ hist = NoHistory

InitDeny ==
    /\ sql \in SeqsUpTo(Alphabet, MaxSqlLen)
    /\ verdict = [state |-> "input", call |-> NotValidated]
    /\ ParkedSQL
    /\ ParkedUrl
    /\ ParkedCheckers

\* validateSQL(sql) returns the finding of the deny-list check
ValidateRejected ==
    /\ verdict.state = "input"
    /\ LET found == DenyListCheck(script, sql)
       IN /\ Truthy(found)
          /\ verdict' = [state |-> "rejected", call |-> Rejected(found)]
    /\ UNCHANGED <<sql, sqlVars, urlVars, checkerVars>>

\* validateSQL(sql) finds nothing in the deny-list check and goes on to the engine
ValidateSubmitted ==
    /\ verdict.state = "input"
    /\ ~Truthy(DenyListCheck(script, sql))
    /\ \E spawned \in BOOLEAN, run \in EngineRuns :
        verdict' = [state |-> "passed", call |-> Submitted(script, spawned, run)]
    /\ UNCHANGED <<sql, sqlVars, urlVars, checkerVars>>

NextDeny ==
    \/ ValidateRejected
    \/ ValidateSubmitted

SpecDeny == InitDeny /\ [][NextDeny]_vars

(***************************************************************************)
(* What the engine reads in a snippet (the ClickHouse lexer): a string      *)
(* literal runs from a quote to the next quote, a line comment from "--" to *)
(* the line break, a block comment from "/*" to the next "*/"; comments and *)
(* white space separate tokens.                                             *)
(***************************************************************************)
RECURSIVE EngineLex(_)
EngineLex(s) ==
    IF s = <<>> THEN <<>>
    ELSE CASE Head(s) = "'" ->
                IF FirstIndex(Tail(s), "'") = 0 THEN <<"unterminated">>
                ELSE <<"string">> \o EngineLex(From(Tail(s), FirstIndex(Tail(s), "'") + 1))
           [] Head(s) = "--" ->
                IF FirstIndex(Tail(s), "\n") = 0 THEN <<" ">>
                ELSE <<" ">> \o EngineLex(From(Tail(s), FirstIndex(Tail(s), "\n")))
           [] Head(s) = "/*" ->
                IF FirstIndex(Tail(s), "*/") = 0 THEN <<"unterminated">>
                ELSE <<" ">> \o EngineLex(From(Tail(s), FirstIndex(Tail(s), "*/") + 1))
           [] OTHER -> <<Head(s)>> \o EngineLex(Tail(s))

DenyListedNames == {Lower(dangerous[k].name) : k \in 1..Len(dangerous)}

\* the snippet, as the engine reads it, calls a deny-listed function: the name
\* (in any letter case) as a whole word, then white space or comments, then "("
ContainsDenyListedCall(s) ==
    /\ ~Includes(EngineLex(s), "unterminated")
    /\ \E i \in 1..Len(EngineLex(s)) :
        /\ Lower(EngineLex(s)[i]) \in DenyListedNames
        /\ (i = 1 \/ ~IsWord(EngineLex(s)[i - 1]))
        /\ OpensCall(EngineLex(s), i + 1)

IsSecurityError(v) == Truthy(v) /\ v[1] = "Security: SQL contains dangerous pattern: "

(***************************************************************************)
(* The external link checker: validateUrl.                                 *)
(***************************************************************************)
MAX_RETRIES == 2
RETRY_DELAYS == <<100, 200, 400>>

\* let lastStatusCode: number | undefined
Undefined == 0

\* what a fetch can end with: a response (redirects followed), or an exception
Statuses == {200, 204, 404, 503}
FetchErrors ==
    { [name |-> "AbortError", code |-> "", message |-> "This operation was aborted"],
      [name |-> "Error", code |-> "ENOTFOUND", message |-> "getaddrinfo ENOTFOUND"],
      [name |-> "Error", code |-> "ECONNREFUSED", message |-> "connect ECONNREFUSED"],
      [name |-> "TypeError", code |-> "", message |-> "fetch failed"],
      [name |-> "Error", code |-> "", message |-> ""] }
Responses == [kind : {"response"}, status : Statuses]
Failures == [kind : {"error"}, error : FetchErrors]
FetchOutcomes == Responses \cup Failures
NotSent == [kind |-> "not sent"]

\* response.ok
Ok(r) == r.kind = "response" /\ r.status >= 200 /\ r.status < 300

\* `${response.status} ${response.statusText}`
StatusLine(n) ==
    CASE n = 200 -> "200 OK" [] n = 204 -> "204 No Content" [] n = 404 -> "404 Not Found"
      [] n = 503 -> "503 Service Unavailable" [] OTHER -> ""

\* the catch of an attempt, were every exception reported by its message
ErrorTextMessageOnly(e) == IF e.message # "" THEN e.message ELSE "Unknown error"

\* the catch of an attempt without the fallback: lastError = error.message
ErrorTextNoFallback(e) ==
    IF e.name = "AbortError" THEN "Request timeout"
    ELSE IF e.code = "ENOTFOUND" THEN "DNS lookup failed"
    ELSE IF e.code = "ECONNREFUSED" THEN "Connection refused"
    ELSE e.message

\* the catch of an attempt: lastError by the kind of exception
ErrorText(e) ==
    IF e.name = "AbortError" THEN "Request timeout"
    ELSE IF e.code = "ENOTFOUND" THEN "DNS lookup failed"
    ELSE IF e.code = "ECONNREFUSED" THEN "Connection refused"
    ELSE IF e.message # "" THEN e.message ELSE "Unknown error"

\* the loop condition, were the last retry left out
LoopStopsEarly(a) == a < MAX_RETRIES

\* the loop condition, were one more retry made
LoopContinuesOnceMore(a) == a <= MAX_RETRIES + 1

\* for (let attempt = 0; attempt <= maxRetries; attempt++), maxRetries = MAX_RETRIES
LoopContinues(a) == a <= MAX_RETRIES

\* RETRY_DELAYS[Math.min(attempt - 1, RETRY_DELAYS.length - 1)], indices from 0
Min(a, b) == IF a <= b THEN a ELSE b
Delay(n) == RETRY_DELAYS[Min(n - 1, Len(RETRY_DELAYS) - 1) + 1]

\* the success result, were the attempts counted instead of the retries
SuccessCountsAttempts(r, retries) ==
    [success |-> TRUE, statusCode |-> r.status, error |-> "", retriesUsed |-> retries + 1]

\* return { url, success: true, statusCode: response.status, source, retriesUsed }
Success(r, retries) ==
    [success |-> TRUE, statusCode |-> r.status, error |-> "", retriesUsed |-> retries]

\* return { url, success: false, statusCode: lastStatusCode, error: lastError, ... }
Failure(status, error, retries) ==
    [success |-> FALSE, statusCode |-> status, error |-> error, retriesUsed |-> retries]

NoResult == [success |-> FALSE, statusCode |-> Undefined, error |-> "", retriesUsed |-> 0]

\* the attempt in progress, in the history
ThisAttempt == Len(uhist.log)

InitUrl ==
    /\ upc = "loop"
    /\ attempt = 0
    /\ retriesUsed = 0
    /\ lastError = ""
    /\ lastStatusCode = Undefined
    /\ requests = <<>>
    /\ response = NotSent
    /\ result = NoResult
    /\ uhist = [log |-> <<>>, sleeps |-> <<>>]
    /\ ParkedSQL
    /\ ParkedDeny
    /\ ParkedCheckers

attemptVars == <<attempt, lastError, lastStatusCode>>

\* for (...; attempt <= maxRetries; ...): the backoff sleep of a retry, then the
\* HEAD request of the attempt
StartAttempt ==
    /\ upc = "loop"
    /\ LoopContinues(attempt)
    /\ IF attempt > 0
       THEN /\ retriesUsed' = retriesUsed + 1
            /\ uhist' = [log |-> Append(uhist.log, [head |-> NotSent, get |-> NotSent]),
                         sleeps |-> Append(uhist.sleeps, Delay(attempt))]
       ELSE /\ retriesUsed' = retriesUsed
            /\ uhist' = [uhist EXCEPT !.log = Append(@, [head |-> NotSent, get |-> NotSent])]
    /\ requests' = <<"HEAD">>
    /\ response' = NotSent
    /\ upc' = "head"
    /\ UNCHANGED <<attemptVars, result, sqlVars, denyVars, checkerVars>>

\* the HEAD request ends: ok returns success, another status sends the GET, an
\* exception goes to the catch and the next attempt
HeadEnds ==
    /\ upc = "head"
    /\ \E r \in FetchOutcomes :
        /\ response' = r
        /\ uhist' = [uhist EXCEPT !.log[ThisAttempt].head = r]
        /\ IF r.kind = "error"
           THEN /\ lastError' = ErrorText(r.error)
                /\ attempt' = attempt + 1
                /\ upc' = "loop"
                /\ UNCHANGED <<requests, result, lastStatusCode>>
           ELSE IF Ok(r)
           THEN /\ result' = Success(r, retriesUsed)
                /\ upc' = "done"
                /\ UNCHANGED <<requests, attemptVars>>
           ELSE /\ requests' = Append(requests, "GET")
                /\ upc' = "get"
                /\ UNCHANGED <<result, attemptVars>>
    /\ UNCHANGED <<retriesUsed, sqlVars, denyVars, checkerVars>>

\* the GET request ends: ok returns success, another status is kept in
\* lastStatusCode and lastError, an exception goes to the catch
GetEnds ==
    /\ upc = "get"
    /\ \E r \in FetchOutcomes :
        /\ response' = r
        /\ uhist' = [uhist EXCEPT !.log[ThisAttempt].get = r]
        /\ IF r.kind = "error"
           THEN /\ lastError' = ErrorText(r.error)
                /\ attempt' = attempt + 1
                /\ upc' = "loop"
                /\ UNCHANGED <<result, lastStatusCode>>
           ELSE IF Ok(r)
           THEN /\ result' = Success(r, retriesUsed)
                /\ upc' = "done"
                /\ UNCHANGED attemptVars
           ELSE /\ lastStatusCode' = r.status
                /\ lastError' = StatusLine(r.status)
                /\ attempt' = attempt + 1
                /\ upc' = "loop"
                /\ UNCHANGED result
    /\ UNCHANGED <<retriesUsed, requests, sqlVars, denyVars, checkerVars>>

\* the loop ends: all retries exhausted
Exhausted ==
    /\ upc = "loop"
    /\ ~LoopContinues(attempt)
    /\ result' = Failure(lastStatusCode, lastError, retriesUsed)
    /\ upc' = "done"
    /\ UNCHANGED <<attemptVars, retriesUsed, requests, response, uhist, sqlVars, denyVars, checkerVars>>

NextUrl ==
    \/ StartAttempt
    \/ HeadEnds
    \/ GetEnds
    \/ Exhausted

SpecUrl == InitUrl /\ [][NextUrl]_vars

(***************************************************************************)
(* The external link checker: checkExternalLinks, validateUrlsBatch and    *)
(* printSummaryTable.  A link is its scheme prefix and the rest of its     *)
(* text; the rest is a number, its rank under localeCompare.  A file is    *)
(* the list of links the extraction finds in it, and its name its rank in  *)
(* the order in which findFiles lists the files.                           *)
(***************************************************************************)
CONCURRENCY == 5

Http == "http://"
Https == "https://"
Relative == "./"
Url(s, h) == [scheme |-> s, rest |-> h]

\* url.startsWith('http://') || url.startsWith('https://')
isExternalUrl(u) == u.scheme = Http \/ u.scheme = Https

\* the links of a file: repeated, relative, shared with other files
LinkLists ==
    { <<>>,
      <<Url(Https, 2), Url(Relative, 1), Url(Https, 1), Url(Https, 2)>>,
      <<Url(Http, 1), Url(Https, 1), Url(Http, 2), Url(Http, 3), Url(Https, 3)>>,
      <<Url(Https, 3), Url(Http, 3), Url(Https, 2), Url(Http, 1)>> }

\* a .md file, a .json file that parses, a .json file that does not
ScannedFiles ==
    [parses : {TRUE}, links : LinkLists] \cup {[parses |-> FALSE, links |-> <<>>]}

\* urls = extract...(content).filter(isExternalUrl)
ExternalUrls(f) == SelectSeq(f.links, isExternalUrl)

\* linkMap.has(url), were no URL ever found in the map
NeverHas(map, u) == FALSE

\* linkMap.has(url)
Has(map, u) == \E i \in 1..Len(map) : map[i].url = u

\* for (const url of urls) { if (!linkMap.has(url)) linkMap.set(url, {...}) }
RECURSIVE AddLinks(_, _, _)
AddLinks(map, urls, f) ==
    IF urls = <<>> THEN map
    ELSE AddLinks(IF Has(map, Head(urls)) THEN map
                  ELSE Append(map, [url |-> Head(urls), source |-> f]),
                  Tail(urls), f)

\* the end of a batch, were all links put in one batch
BatchEndAll(i, n) == n

\* linkInfos.slice(i, i + concurrency): the index after the last of the batch
BatchEnd(i, n) == Min(i + CONCURRENCY, n)
Batch(infos, i) == SubSeq(infos, i + 1, BatchEnd(i, Len(infos)))

\* what validateUrl returns for a link: a success, or a failure when all
\* attempts failed
CheckResults ==
    { Success([kind |-> "response", status |-> 200], 0),
      Failure(404, StatusLine(404), MAX_RETRIES),
      Failure(Undefined, "Request timeout", MAX_RETRIES) }
LinkCheckResult(info, r) ==
    [url |-> info.url, source |-> info.source, success |-> r.success,
     statusCode |-> r.statusCode, error |-> r.error, retriesUsed |-> r.retriesUsed]
Pending == [status |-> "pending"]
Fulfilled(v) == [status |-> "fulfilled", value |-> v]

\* a.url.localeCompare(b.url): the scheme prefixes, then the rest
SchemeRank(x) == IF x = Http THEN 1 ELSE 2
localeCompare(x, y) ==
    IF x.scheme # y.scheme
    THEN (IF SchemeRank(x.scheme) < SchemeRank(y.scheme) THEN -1 ELSE 1)
    ELSE IF x.rest < y.rest THEN -1 ELSE IF x.rest > y.rest THEN 1 ELSE 0

\* the comparator of the summary table, were the outcome left out of it
CompareByUrl(a, b) == localeCompare(a.url, b.url)

\* (a, b) => { if (a.success !== b.success) return a.success ? 1 : -1; ... }
Compare(a, b) ==
    IF a.success # b.success THEN (IF a.success THEN 1 ELSE -1)
    ELSE localeCompare(a.url, b.url)

\* [...results].sort(compare): a stable sort
Insert(sorted, x) ==
    LET k == Cardinality({i \in 1..Len(sorted) : Compare(sorted[i], x) <= 0})
    IN  SubSeq(sorted, 1, k) \o <<x>> \o SubSeq(sorted, k + 1, Len(sorted))
RECURSIVE Sort(_)
Sort(q) == IF q = <<>> THEN <<>> ELSE Insert(Sort(SubSeq(q, 1, Len(q) - 1)), q[Len(q)])

\* if (failures.length > 0) process.exit(1), were the exit left out
NeverFails(n) == FALSE

\* if (failures.length > 0)
AnyFailure(n) == n > 0
FailedResults(rs) == SelectSeq(rs, LAMBDA r : ~r.success)

NoLinkHistory ==
    [calls |-> <<>>,         \* the urls given to validateUrl, in the order of the calls
     occurrences |-> {},     \* <<url, file>> for every external link read in a file
     threw |-> FALSE]        \* findFiles or readFile threw

ParkedLinkChecker ==
    ParkedSQL /\ ParkedDeny /\ ParkedUrl /\ ParkedInternal /\ ParkedValidate /\ ParkedBuild
notLinkVars == <<sqlVars, denyVars, urlVars, internalVars, validateVars, buildVars>>

InitLinks ==
    /\ lpc = "scan"
    /\ scanned = 0
    /\ linkMap = <<>>
    /\ batchAt = 0
    /\ checks = <<>>
    /\ results = <<>>
    /\ table = <<>>
    /\ lexit = NotExited
    /\ lhist = NoLinkHistory
    /\ ParkedLinkChecker

\* for (const filePath of files): read the next file, extract its links and add
\* them to linkMap; a .json file that does not parse is skipped with a warning
ScanFile ==
    /\ lpc = "scan"
    /\ scanned < MaxScanFiles
    /\ \E f \in ScannedFiles :
        /\ scanned' = scanned + 1
        /\ IF f.parses
           THEN /\ linkMap' = AddLinks(linkMap, ExternalUrls(f), scanned + 1)
                /\ lhist' = [lhist EXCEPT !.occurrences =
                               @ \cup { <<f.links[i], scanned + 1>> : i \in
                                          {j \in 1..Len(f.links) :
                                              f.links[j].scheme \in {Http, Https}} }]
           ELSE UNCHANGED <<linkMap, lhist>>
    /\ UNCHANGED <<lpc, batchAt, checks, results, table, lexit, notLinkVars>>

\* findFiles or readFile throws: the catch of checkExternalLinks
ScanThrows ==
    /\ lpc = "scan"
    /\ lexit' = <<1>>
    /\ lpc' = "exited"
    /\ lhist' = [lhist EXCEPT !.threw = TRUE]
    /\ UNCHANGED <<scanned, linkMap, batchAt, checks, results, table, notLinkVars>>

\* the files are all read: uniqueLinks; return when there is none
ScanDone ==
    /\ lpc = "scan"
    /\ IF Len(linkMap) = 0
       THEN lpc' = "exited" /\ lexit' = <<0>>
       ELSE lpc' = "batch" /\ lexit' = lexit
    /\ UNCHANGED <<scanned, linkMap, batchAt, checks, results, table, lhist, notLinkVars>>

\* validateUrlsBatch: batch.map(info => validateUrl(info.url, info.source))
StartBatch ==
    /\ lpc = "batch"
    /\ batchAt < Len(linkMap)
    /\ checks' = [j \in 1..Len(Batch(linkMap, batchAt)) |-> Pending]
    /\ lhist' = [lhist EXCEPT !.calls =
                   @ \o [j \in 1..Len(Batch(linkMap, batchAt)) |->
                            Batch(linkMap, batchAt)[j].url]]
    /\ lpc' = "await"
    /\ UNCHANGED <<scanned, linkMap, batchAt, results, table, lexit, notLinkVars>>

\* one validateUrl of the batch returns
CheckSettles ==
    /\ lpc = "await"
    /\ \E j \in 1..Len(checks) :
        /\ checks[j].status = "pending"
        /\ \E r \in CheckResults :
            checks' = [checks EXCEPT
                         ![j] = Fulfilled(LinkCheckResult(Batch(linkMap, batchAt)[j], r))]
    /\ UNCHANGED <<lpc, scanned, linkMap, batchAt, results, table, lexit, lhist,
                   notLinkVars>>

\* await Promise.allSettled(...) resolves: the results of the batch are pushed
\* in the order of the batch, and the loop goes on
CollectBatch ==
    /\ lpc = "await"
    /\ \A j \in 1..Len(checks) : checks[j].status = "fulfilled"
    /\ results' = results \o [j \in 1..Len(checks) |-> checks[j].value]
    /\ batchAt' = batchAt + CONCURRENCY
    /\ checks' = <<>>
    /\ lpc' = "batch"
    /\ UNCHANGED <<scanned, linkMap, table, lexit, lhist, notLinkVars>>

\* validateUrlsBatch returns; printSummaryTable; exit status
ReportLinks ==
    /\ lpc = "batch"
    /\ batchAt >= Len(linkMap)
    /\ table' = Sort(results)
    /\ lexit' = IF AnyFailure(Len(FailedResults(results))) THEN <<1>> ELSE <<0>>
    /\ lpc' = "exited"
    /\ UNCHANGED <<scanned, linkMap, batchAt, checks, results, lhist, notLinkVars>>

NextLinks ==
    \/ ScanFile
    \/ ScanThrows
    \/ ScanDone
    \/ StartBatch
    \/ CheckSettles
    \/ CollectBatch
    \/ ReportLinks

SpecLinks == InitLinks /\ [][NextLinks]_vars

(***************************************************************************)
(* The external link checker under fairness.  A behaviour is a call of     *)
(* validateUrl or a run of checkExternalLinks.  Every fetch ends, with a    *)
(* response or with the AbortError of the attempt's timer (setTimeout of    *)
(* controller.abort), every sleep ends, and the event loop runs whatever is *)
(* ready: a step of validateUrl or of validateUrlsBatch that can be taken   *)
(* is taken.                                                                *)
(***************************************************************************)
InitLinkChecks == InitUrl \/ InitLinks

NextLinkChecks ==
    \/ StartAttempt
    \/ HeadEnds
    \/ GetEnds
    \/ Exhausted
    \/ ScanFile
    \/ ScanThrows
    \/ ScanDone
    \/ StartBatch
    \/ CheckSettles
    \/ CollectBatch
    \/ ReportLinks

SpecLinksFair ==
    /\ InitLinkChecks
    /\ [][NextLinkChecks]_vars
    /\ WF_vars(NextUrl)
    /\ WF_vars(StartBatch)
    /\ WF_vars(CheckSettles)
    /\ WF_vars(CollectBatch)

(***************************************************************************)
(* The internal link checker: checkLinks.  A link and a file name are      *)
(* token sequences: words, "/", "#", the extension ".md", the prefixes     *)
(* "http://" and "https://".                                               *)
(***************************************************************************)
Md == ".md"

\* str.startsWith(prefix), str.endsWith(suffix) for a one-token prefix or suffix
startsWith(str, prefix) == str # <<>> /\ str[1] = prefix
endsWith(str, suffix) == str # <<>> /\ str[Len(str)] = suffix

\* path.basename(link), were the path left as it is
WholePath(p) == p

\* path.basename(link): what follows the last "/"
basename(p) ==
    LET slashes == {i \in 1..Len(p) : p[i] = "/"}
    IN  IF slashes = {} THEN p
        ELSE SubSeq(p, (CHOOSE i \in slashes : \A j \in slashes : j <= i) + 1, Len(p))

\* the names readdir(RULES_DIR) can list
FileNames ==
    { <<"a", Md>>, <<"c", Md>>, <<"C", Md>>, <<"notes", ".txt">> }
DirListings ==
    {q \in SeqsUpTo(FileNames, MaxRuleFiles) : \A i, j \in 1..Len(q) : q[i] = q[j] => i = j}

\* the links extractLinks can find in a rule file
RuleLinks ==
    { <<"a", Md>>, <<"dir", "/", "a", Md>>, <<"c", Md>>, <<"c", ".json">>,
      <<"a", Md, "#", "s">>, <<"#", "a">>, <<"#", "c", Md>>, <<"https://", "c", Md>> }

\* function isInternalLink(link)
isInternalLink(l) == ~startsWith(l, "http://") /\ ~startsWith(l, "https://")

\* ruleFiles.includes(referencedFile)
includes(arr, x) == \E i \in 1..Len(arr) : arr[i] = x

\* the entries checkLinks pushes for a link of a file
LinkErrorsFor(f, l, files) ==
    IF isInternalLink(l) /\ endsWith(l, Md) /\ ~includes(files, basename(l))
    THEN << [file |-> f, link |-> l,
             message |-> <<"Referenced file does not exist: ", basename(l)>>] >>
    ELSE <<>>

\* the exit status, were it 0 whatever was found
ExitStatusZero(n) == <<0>>

\* if (allErrors.length > 0) { ...; process.exit(1) } else { console.log(...) }
ExitStatus(n) == IF n > 0 THEN <<1>> ELSE <<0>>

NoInternalHistory ==
    [checked |-> FALSE,     \* the link in `link` has been checked
     before |-> 0,          \* the length of allErrors before that check
     threw |-> FALSE]       \* readdir or readFile threw

notInternalVars == <<sqlVars, denyVars, urlVars, linkVars, validateVars, buildVars>>

InitInternal ==
    /\ ipc = "readdir"
    /\ ruleFiles = <<>>
    /\ ifile = 0
    /\ link = <<>>
    /\ linksRead = 0
    /\ linkErrors = <<>>
    /\ iexit = NotExited
    /\ ihist = NoInternalHistory
    /\ ParkedSQL /\ ParkedDeny /\ ParkedUrl /\ ParkedLinks /\ ParkedValidate /\ ParkedBuild

\* const files = await readdir(RULES_DIR); ruleFiles = files.filter(...)
ReadRulesListing ==
    /\ ipc = "readdir"
    /\ \E files \in DirListings :
          ruleFiles' = SelectSeq(files, LAMBDA f : endsWith(f, Md))
    /\ ipc' = "files"
    /\ UNCHANGED <<ifile, link, linksRead, linkErrors, iexit, ihist, notInternalVars>>

\* readdir, or the readFile of the next rule file, throws: the catch of checkLinks
ReadThrows ==
    /\ \/ ipc = "readdir"
       \/ ipc = "files" /\ ifile < Len(ruleFiles)
    /\ iexit' = <<1>>
    /\ ipc' = "exited"
    /\ ihist' = [ihist EXCEPT !.threw = TRUE, !.checked = FALSE]
    /\ UNCHANGED <<ruleFiles, ifile, link, linksRead, linkErrors, notInternalVars>>

\* for (const file of ruleFiles): readFile and extractLinks of the next file
NextRuleFile ==
    /\ ipc = "files"
    /\ ifile < Len(ruleFiles)
    /\ ifile' = ifile + 1
    /\ ipc' = "links"
    /\ ihist' = [ihist EXCEPT !.checked = FALSE]
    /\ UNCHANGED <<ruleFiles, link, linksRead, linkErrors, iexit, notInternalVars>>

\* for (const link of links): the body of the loop for the next link
CheckLink ==
    /\ ipc = "links"
    /\ linksRead < MaxLinks
    /\ \E l \in RuleLinks :
        /\ link' = l
        /\ linkErrors' = linkErrors \o LinkErrorsFor(ruleFiles[ifile], l, ruleFiles)
    /\ linksRead' = linksRead + 1
    /\ ihist' = [ihist EXCEPT !.checked = TRUE, !.before = Len(linkErrors)]
    /\ UNCHANGED <<ipc, ruleFiles, ifile, iexit, notInternalVars>>

\* for (const link of links): no link is left in the file
LinksDone ==
    /\ ipc = "links"
    /\ ipc' = "files"
    /\ ihist' = [ihist EXCEPT !.checked = FALSE]
    /\ UNCHANGED <<ruleFiles, ifile, link, linksRead, linkErrors, iexit, notInternalVars>>

\* after the loop over ruleFiles: the report and the exit status
ReportInternal ==
    /\ ipc = "files"
    /\ ifile = Len(ruleFiles)
    /\ iexit' = ExitStatus(Len(linkErrors))
    /\ ipc' = "exited"
    /\ UNCHANGED <<ruleFiles, ifile, link, linksRead, linkErrors, ihist, notInternalVars>>

NextInternal ==
    \/ ReadRulesListing
    \/ ReadThrows
    \/ NextRuleFile
    \/ CheckLink
    \/ LinksDone
    \/ ReportInternal

SpecInternal == InitInternal /\ [][NextInternal]_vars

(***************************************************************************)
(* The structural validator (validate.ts, run as `validate`): every parsed *)
(* rule is checked against the content contract (title, explanation,       *)
(* impact, a negative and a positive example, code), every violation is    *)
(* accumulated, and the report and the exit status come after the last     *)
(* rule.  A label is a sequence of words, a code block a sequence of lines. *)
(***************************************************************************)
MaxRules == 2          \* rule files the validator reads
MaxRuleExamples == 2   \* examples of one rule

\* impact: CRITICAL | HIGH | MEDIUM-HIGH | MEDIUM | LOW-MEDIUM | LOW
ImpactLevels == {"CRITICAL", "HIGH", "MEDIUM-HIGH", "MEDIUM", "LOW-MEDIUM", "LOW"}

\* the synonym table of the labels, in lower case
NegativeLabels == {"incorrect", "wrong", "bad"}
PositiveLabels == {"correct", "good", "usage", "example"}

\* a word of a label with its case folded
toLowerCase(w) ==
    CASE w = "Incorrect" -> "incorrect" [] w = "WRONG" -> "wrong" [] w = "Bad" -> "bad"
      [] w = "Correct" -> "correct" [] w = "GOOD" -> "good" [] w = "Usage" -> "usage"
      [] w = "Example" -> "example" [] w = "Note" -> "note"
      [] OTHER -> w

\* the label holds a word of the table, whatever its letter case
MatchesLabel(label, synonyms) ==
    \E i \in 1..Len(label) : toLowerCase(label[i]) \in synonyms

\* the parsed rules the validator can be given
RuleLabels ==
    { <<"Incorrect", "(why)">>, <<"WRONG">>, <<"Bad">>, <<"Correct", "(why)">>,
      <<"GOOD">>, <<"Usage">>, <<"example">>, <<"Note">> }
RuleCodes == { <<>>, <<"SELECT 1">> }
RuleExamples == SeqsUpTo([label : RuleLabels, code : RuleCodes], MaxRuleExamples)
ParsedRules ==
    [title : {"", "Use native types"}, explanation : {"", "Native types are smaller."},
     impact : {"CRITICAL", "LOW-MEDIUM", "URGENT"}, examples : RuleExamples]
NoRule == <<>>

\* one violation: the offending file, the rule title and the reason
Violation(f, r, reason) == [file |-> f, title |-> r.title, reason |-> reason]

\* the checks of the examples of a rule; a rule without any example gets the
\* one violation for its missing examples
ExampleViolations(f, r) ==
    IF r.examples = <<>>
    THEN << Violation(f, r, "Missing examples") >>
    ELSE (IF SelectSeq(r.examples, LAMBDA e : MatchesLabel(e.label, NegativeLabels)) = <<>>
          THEN << Violation(f, r, "Missing incorrect example") >> ELSE <<>>)
         \o (IF SelectSeq(r.examples, LAMBDA e : MatchesLabel(e.label, PositiveLabels)) = <<>>
             THEN << Violation(f, r, "Missing correct example") >> ELSE <<>>)
         \o (IF SelectSeq(r.examples, LAMBDA e : e.code # <<>>) = <<>>
             THEN << Violation(f, r, "Missing code") >> ELSE <<>>)

\* the checks of one rule, each on its own
validateRule(f, r) ==
    (IF r.title = "" THEN << Violation(f, r, "Missing or empty title") >> ELSE <<>>)
    \o (IF r.explanation = ""
        THEN << Violation(f, r, "Missing or empty explanation") >> ELSE <<>>)
    \o (IF r.impact \notin ImpactLevels
        THEN << Violation(f, r, "Invalid impact level") >> ELSE <<>>)
    \o ExampleViolations(f, r)

\* the violations, were the validator to stop reporting after the first rule
\* that has some
KeepFirstOnly(all, found) == IF all = <<>> THEN found ELSE all

\* the violations of a rule are added to those found so far
Accumulate(all, found) == all \o found

\* what the content contract asks of a rule
Complete(r) ==
    /\ r.title # ""
    /\ r.explanation # ""
    /\ r.impact \in ImpactLevels
    /\ \E i \in 1..Len(r.examples) : MatchesLabel(r.examples[i].label, NegativeLabels)
    /\ \E i \in 1..Len(r.examples) : MatchesLabel(r.examples[i].label, PositiveLabels)
    /\ \E i \in 1..Len(r.examples) : r.examples[i].code # <<>>

NoValidateHistory == [lacking |-> {}]   \* the files whose rule is not complete

notValidateVars == <<sqlVars, denyVars, urlVars, linkVars, internalVars, buildVars>>

InitValidate ==
    /\ vpc = "rules"
    /\ rule = NoRule
    /\ rulesRead = 0
    /\ violations = <<>>
    /\ vexit = NotExited
    /\ vhist = NoValidateHistory
    /\ ParkedSQL /\ ParkedDeny /\ ParkedUrl /\ ParkedLinks /\ ParkedInternal /\ ParkedBuild

\* for each rule file: the parser gives its rule
ReadRule ==
    /\ vpc = "rules"
    /\ rulesRead < MaxRules
    /\ \E r \in ParsedRules :
        /\ rule' = r
        /\ vhist' = [vhist EXCEPT !.lacking =
                        IF Complete(r) THEN @ ELSE @ \cup {rulesRead + 1}]
    /\ rulesRead' = rulesRead + 1
    /\ vpc' = "validate"
    /\ UNCHANGED <<violations, vexit, notValidateVars>>

\* the rule is checked and its violations are kept for the report
ValidateRule ==
    /\ vpc = "validate"
    /\ violations' = Accumulate(violations, validateRule(rulesRead, rule))
    /\ vpc' = "validated"
    /\ UNCHANGED <<rule, rulesRead, vexit, vhist, notValidateVars>>

\* the loop goes on to the next rule file
NextRule ==
    /\ vpc = "validated"
    /\ rule' = NoRule
    /\ vpc' = "rules"
    /\ UNCHANGED <<rulesRead, violations, vexit, vhist, notValidateVars>>

\* no rule file is left
RulesDone ==
    /\ vpc = "rules"
    /\ vpc' = "report"
    /\ UNCHANGED <<rule, rulesRead, violations, vexit, vhist, notValidateVars>>

\* the report: failure if any violation exists, success and a count otherwise
ReportViolations ==
    /\ vpc = "report"
    /\ vexit' = IF Len(violations) > 0 THEN <<1>> ELSE <<0>>
    /\ vpc' = "exited"
    /\ UNCHANGED <<rule, rulesRead, violations, vhist, notValidateVars>>

NextValidate ==
    \/ ReadRule
    \/ ValidateRule
    \/ NextRule
    \/ RulesDone
    \/ ReportViolations

SpecValidate == InitValidate /\ [][NextValidate]_vars

(***************************************************************************)
(* The compiler (build.ts, run as `build` or `build --upgrade-version`):   *)
(* the rule files are grouped into the sections by filename prefix, the    *)
(* sections ordered by rank, the rules of a section by filename, numbered  *)
(* section.rule and written out with the version.  A rule file name is its *)
(* prefix and the alphabetical rank of what follows the prefix; a version  *)
(* is <<major, minor, patch>>.                                             *)
(***************************************************************************)
MaxBuilds == 2   \* builds run one after the other

\* rules/_sections.md: the sections, as the file declares them
SectionsMeta ==
    << [prefix |-> "schema", rank |-> 1, name |-> "Schema Design"],
       [prefix |-> "query", rank |-> 2, name |-> "Query Optimization"],
       [prefix |-> "insert", rank |-> 3, name |-> "Insert Strategy"] >>

\* the rule files a rules directory can hold: schema-pk-*, schema-types-*,
\* insert-async-*, and a file with a prefix no section declares
RuleFileNames ==
    { [prefix |-> "schema", rest |-> 1], [prefix |-> "schema", rest |-> 2],
      [prefix |-> "insert", rest |-> 1], [prefix |-> "misc", rest |-> 1] }

\* the orders in which a directory listing can give the files of a directory
Listings(dir) ==
    {q \in [1..Cardinality(dir) -> dir] : \A i, j \in 1..Len(q) : q[i] = q[j] => i = j}

\* metadata.json: "version": "0.2.0"
StoredVersions == { <<0, 2, 0>>, <<1, 0, 9>> }

\* the version, were the minor component the one incremented
incrementMinorVersion(v) == <<v[1], v[2] + 1, 0>>

\* the patch component incremented by one
incrementVersion(v) == <<v[1], v[2], v[3] + 1>>

\* the rules of a section, were they left in the order of the listing
AsListed(q) == q

\* the rules of a section in the order of their file names
RECURSIVE InsertByName(_, _)
InsertByName(f, q) ==
    IF q = <<>> THEN <<f>>
    ELSE IF f.rest <= Head(q).rest THEN <<f>> \o q
         ELSE <<Head(q)>> \o InsertByName(f, Tail(q))
RECURSIVE SortByName(_)
SortByName(q) == IF q = <<>> THEN <<>> ELSE InsertByName(Head(q), SortByName(Tail(q)))

\* the order of the rules within a section
OrderRules(q) == SortByName(q)

\* the sections in the order of their ranks
RECURSIVE InsertByRank(_, _)
InsertByRank(x, q) ==
    IF q = <<>> THEN <<x>>
    ELSE IF x.rank <= Head(q).rank THEN <<x>> \o q
         ELSE <<Head(q)>> \o InsertByRank(x, Tail(q))
RECURSIVE SortByRank(_)
SortByRank(q) == IF q = <<>> THEN <<>> ELSE InsertByRank(Head(q), SortByRank(Tail(q)))

\* a rule file that matches no declared prefix
IsOrphan(f) == \A k \in 1..Len(SectionsMeta) : SectionsMeta[k].prefix # f.prefix
HasOrphan(q) == \E i \in 1..Len(q) : IsOrphan(q[i])

\* the rules of one section, numbered sectionRank.ruleIndex
SectionEntries(sec, q) ==
    LET rules == OrderRules(SelectSeq(q, LAMBDA f : f.prefix = sec.prefix))
    IN  [i \in 1..Len(rules) |-> [number |-> <<sec.rank, i>>, file |-> rules[i]]]

\* the numbered rules of the sections from the k-th on
RECURSIVE EntriesFrom(_, _, _)
EntriesFrom(secs, k, q) ==
    IF k > Len(secs) THEN <<>>
    ELSE SectionEntries(secs[k], q) \o EntriesFrom(secs, k + 1, q)

\* the compiled document: the version and the numbered rules
Compile(q, v) == [version |-> v, entries |-> EntriesFrom(SortByRank(SectionsMeta), 1, q)]
NoDocument == <<>>

\* what a build leaves in the history
BuildRecord(up, ok, q, before, after, doc) ==
    [upgrade |-> up, ok |-> ok, listing |-> q, before |-> before, after |-> after,
     document |-> doc]

notBuildVars == <<sqlVars, denyVars, urlVars, linkVars, internalVars, validateVars>>

InitBuild ==
    /\ bpc = "idle"
    /\ rulesDir \in SUBSET RuleFileNames
    /\ version \in StoredVersions
    /\ upgrade = FALSE
    /\ listing = <<>>
    /\ document = NoDocument
    /\ bexit = NotExited
    /\ bhist = <<>>
    /\ ParkedSQL /\ ParkedDeny /\ ParkedUrl /\ ParkedLinks /\ ParkedInternal /\ ParkedValidate

\* a build is invoked, normally or in upgrade mode; the rules directory is listed
StartBuild ==
    /\ bpc = "idle"
    /\ Len(bhist) < MaxBuilds
    /\ upgrade' \in BOOLEAN
    /\ listing' \in Listings(rulesDir)
    /\ bexit' = NotExited
    /\ bpc' = "compile"
    /\ UNCHANGED <<rulesDir, version, document, bhist, notBuildVars>>

\* a rule file matches no section: the build stops, nothing is written
OrphanStops ==
    /\ bpc = "compile"
    /\ HasOrphan(listing)
    /\ bexit' = <<1>>
    /\ bhist' = Append(bhist, BuildRecord(upgrade, FALSE, listing, version, version, NoDocument))
    /\ bpc' = "idle"
    /\ UNCHANGED <<rulesDir, version, upgrade, listing, document, notBuildVars>>

\* the end of a successful build: the stored version is read; in upgrade mode
\* it is incremented and written back; the document is written with the
\* version of the build
EmitDocument ==
    /\ bpc = "compile"
    /\ ~HasOrphan(listing)
    /\ version' = IF upgrade THEN incrementVersion(version) ELSE version
    /\ document' = Compile(listing, version')
    /\ bexit' = <<0>>
    /\ bhist' = Append(bhist, BuildRecord(upgrade, TRUE, listing, version, version', document'))
    /\ bpc' = "idle"
    /\ UNCHANGED <<rulesDir, upgrade, listing, notBuildVars>>

NextBuild ==
    \/ StartBuild
    \/ OrphanStops
    \/ EmitDocument

SpecBuild == InitBuild /\ [][NextBuild]_vars

(***************************************************************************)
(* Properties of the SQL validator.                                        *)
(***************************************************************************)
EngineReportedError(text) == Includes(text, "Exception") \/ Includes(text, "Error")

\* the entries of allErrors recorded for the example with label n
EntriesFor(n) == {i \in 1..Len(allErrors) : allErrors[i].exampleLabel = n}

\* validateSQL has returned for the current example
CallReturned == hist.called /\ pc \in {"return", "examples"}

\* C1: every snippet that contains a call of a deny-listed function (also with
\* a comment or white space before the parenthesis, in any letter case) makes
\* validateSQL return a "Security:" error and is never submitted to the engine.
C1_DenyListedCallIsRejected ==
    (verdict.state # "input" /\ ContainsDenyListedCall(sql))
        => (IsSecurityError(verdict.call.returned) /\ ~verdict.call.submitted)

C3_EngineErrorIsReported ==
    /\ (CallReturned /\ hist.submitted /\ EngineReportedError(hist.engineSaid))
          => /\ returned = Trim(hist.engineSaid)
             /\ ~IsSecurityError(returned)
             /\ pc = "examples" => Cardinality(EntriesFor(examplesRead)) = 1
    /\ (CallReturned /\ hist.submitted /\ returned = Null)
          => ~EngineReportedError(hist.engineSaid)

\* C4: every engine subprocess the SQL validator starts carries the whole
\* restricted flag set.
C4_EveryEngineRunIsRestricted ==
    \A i \in 1..Len(engine) : RestrictedFlags \subseteq engine[i].flags

\* C5: when the engine binary cannot be acquired (unsupported platform, or a
\* failed download) no snippet is validated, the skip warning is printed and the
\* process exits with status 0.
C5_NoBinaryMeansSkip ==
    hist.acquisition \in {"unsupported platform", "download failed"}
        => /\ pc \in {"skip", "exited"}
           /\ filesRead = 0 /\ examplesRead = 0 /\ hist.calls = 0
           /\ tmpFiles = {} /\ engine = <<>>
           /\ exitCode \in {NotExited, <<0>>}
           /\ pc = "exited" => (exitCode = <<0>> /\ "Skipping SQL validation" \in console)

C5_Witness ==
    /\ pc = "exited"
    /\ hist.acquisition = "download failed"
    /\ exitCode = <<0>>

C7_OnlySqlExamplesAreValidated ==
    /\ example # NoExample => (hist.called <=> SqlEligible(example))
    /\ totalSQLExamples = hist.eligible
    /\ hist.calls = hist.eligible

C7_Witness ==
    /\ example.language = "typescript" /\ example.code = CodeDangerous
    /\ ~hist.called /\ totalSQLExamples = 2 /\ examplesRead = 3

\* each example for which validateSQL returned an error has exactly one entry,
\* with its file, its label and that error; no other example has one
EachFailureHasOneEntry ==
    /\ (pc = "examples" /\ hist.called)
          => /\ Cardinality(EntriesFor(examplesRead)) = (IF Truthy(returned) THEN 1 ELSE 0)
             /\ \A i \in EntriesFor(examplesRead) :
                    /\ allErrors[i].file = file
                    /\ allErrors[i].error = returned
                    /\ allErrors[i].sql = example.code
    /\ \A i \in 1..Len(allErrors) : Cardinality(EntriesFor(allErrors[i].exampleLabel)) = 1

\* a failure does not end the loop: the report is reached only from the end of
\* the file list
LoopRunsToTheEnd ==
    /\ pc = "report" => hist.listed
    /\ (pc = "exited" /\ Len(allErrors) > 0) => hist.listed

AttemptOver(i) == i < Len(uhist.log) \/ upc \in {"loop", "done"}

\* attempt i of the history met a 2xx response
MetSuccess(i) == Ok(uhist.log[i].head) \/ Ok(uhist.log[i].get)
SuccessStatus(i) ==
    IF Ok(uhist.log[i].head) THEN uhist.log[i].head.status ELSE uhist.log[i].get.status

\* C9: in every attempt the HEAD request is sent first and a GET only after that
\* HEAD did not succeed; whenever the HEAD of an attempt does not succeed (a
\* non-2xx response or a failed request) a GET is sent in the same attempt; a
\* 2xx on either request ends the probing with success.
C9_HeadFirstThenGet ==
    /\ requests # <<>> => (requests = <<"HEAD">> \/ requests = <<"HEAD", "GET">>)
    /\ \A i \in 1..Len(uhist.log) :
        /\ uhist.log[i].get # NotSent
              => (uhist.log[i].head # NotSent /\ ~Ok(uhist.log[i].head))
        /\ (AttemptOver(i) /\ ~Ok(uhist.log[i].head)) => uhist.log[i].get # NotSent
        /\ MetSuccess(i) => (upc = "done" /\ result.success)

\* C10: when the first k attempts fail and attempt k+1 meets a 2xx status
\* (0 <= k <= MAX_RETRIES), validateUrl returns success = true, that status and
\* retriesUsed = k, and makes no further attempt.
C10_SuccessAfterKFailures ==
    \A i \in 1..Len(uhist.log) :
        MetSuccess(i)
            => /\ \A j \in 1..(i - 1) : ~MetSuccess(j)
               /\ i - 1 <= MAX_RETRIES
               /\ upc = "done"
               /\ result.success
               /\ result.statusCode = SuccessStatus(i)
               /\ result.retriesUsed = i - 1
               /\ i = Len(uhist.log)
               /\ ~ENABLED StartAttempt

\* two attempts time out, the third returns 200
C10_Witness ==
    /\ upc = "done"
    /\ Len(uhist.log) = 3
    /\ \A j \in 1..2 : /\ uhist.log[j].head.kind = "error"
                       /\ uhist.log[j].head.error.name = "AbortError"
    /\ Ok(uhist.log[3].head) /\ uhist.log[3].head.status = 200
    /\ result = [success |-> TRUE, statusCode |-> 200, error |-> "", retriesUsed |-> 2]

\* the request that ended attempt i, and the sum of a sequence of delays
AttemptOutcome(i) ==
    IF uhist.log[i].get # NotSent THEN uhist.log[i].get ELSE uhist.log[i].head
RECURSIVE SumSeq(_)
SumSeq(q) == IF q = <<>> THEN 0 ELSE Head(q) + SumSeq(Tail(q))
Exhaustion == upc = "done" /\ ~result.success

\* C11: validateUrl returns success = false only after exactly MAX_RETRIES + 1
\* attempts that all failed, with retriesUsed = MAX_RETRIES; no URL is attempted
\* more than MAX_RETRIES + 1 times.
C11_FailureOnlyAfterAllAttempts ==
    /\ Len(uhist.log) <= MAX_RETRIES + 1
    /\ Exhaustion
          => /\ Len(uhist.log) = MAX_RETRIES + 1
             /\ \A i \in 1..Len(uhist.log) :
                   AttemptOutcome(i) # NotSent /\ ~MetSuccess(i)
             /\ result.retriesUsed = MAX_RETRIES

\* a URL that answered 503, timed out and answered 404 is reported broken
C11_Witness ==
    /\ Exhaustion
    /\ Len(uhist.log) = 3
    /\ AttemptOutcome(1) = [kind |-> "response", status |-> 503]
    /\ AttemptOutcome(2).kind = "error"
    /\ AttemptOutcome(3) = [kind |-> "response", status |-> 404]
    /\ result.retriesUsed = 2

\* C12: for a URL that fails every attempt, the time spent in backoff sleeps is
\* at least the sum of the configured delays RETRY_DELAYS, the delay before each
\* successive retry being the next configured step.
C12_BackoffSumsToConfiguredDelays ==
    /\ \A i \in 1..Len(uhist.sleeps) :
          i <= Len(RETRY_DELAYS) /\ uhist.sleeps[i] = RETRY_DELAYS[i]
    /\ Exhaustion => SumSeq(uhist.sleeps) >= SumSeq(RETRY_DELAYS)

(***************************************************************************)
(* Properties of checkExternalLinks and validateUrlsBatch.                 *)
(***************************************************************************)
\* the checks now in progress, and the run that went through all its batches
InFlight == Cardinality({j \in 1..Len(checks) : checks[j].status = "pending"})
RunCompleted == lpc = "exited" /\ Len(table) > 0

\* C13: at every moment at most CONCURRENCY checks are in progress; no check of
\* a batch is started before every check of the batch before it has returned;
\* the batches are started in input order.
C13_BoundedBatches ==
    /\ InFlight <= CONCURRENCY
    /\ \A k \in 1..Len(lhist.calls) :
          k <= Len(linkMap) /\ lhist.calls[k] = linkMap[k].url
    /\ Len(results) = Len(lhist.calls) - Len(checks)
    /\ lpc = "await" => (Len(checks) > 0 /\ Len(results) % CONCURRENCY = 0)
    /\ lpc # "await" => checks = <<>>

\* the sixth link is being checked, alone, after the five of the first batch
C13_Witness ==
    /\ lpc = "await"
    /\ Len(results) = CONCURRENCY
    /\ Len(lhist.calls) = CONCURRENCY + 1
    /\ InFlight = 1

\* the order the summary table is to have: failures first, then the text of the url
LexBefore(x, y) ==
    \/ x.scheme = Http /\ y.scheme = Https
    \/ x.scheme = y.scheme /\ x.rest < y.rest
Precedes(a, b) ==
    \/ ~a.success /\ b.success
    \/ a.success = b.success /\ LexBefore(a.url, b.url)

\* C14: whatever the order in which the checks of a batch return, result i
\* carries the url and source of input link i, and the summary table lists the
\* same results, failures before successes and urls in lexical order within
\* each group -- an order the outcomes alone determine.
C14_OrderIsIndependentOfCompletion ==
    /\ \A i \in 1..Len(results) :
          results[i].url = linkMap[i].url /\ results[i].source = linkMap[i].source
    /\ \A j \in 1..Len(checks) :
          checks[j].status = "fulfilled"
              => checks[j].value.url = linkMap[batchAt + j].url
    /\ RunCompleted
          => /\ Len(table) = Len(results)
             /\ Range(table) = Range(results)
             /\ \A i \in 1..(Len(table) - 1) : Precedes(table[i], table[i + 1])

\* six results, failures and successes mixed, in another order than the table
C14_Witness ==
    /\ RunCompleted
    /\ Len(results) = CONCURRENCY + 1
    /\ results[1].success /\ ~results[2].success /\ results[3].success
    /\ ~results[CONCURRENCY + 1].success
    /\ table # results

\* the first file, in scan order, in which a url occurs
FirstSource(u) ==
    CHOOSE f \in 1..MaxScanFiles :
        /\ <<u, f>> \in lhist.occurrences
        /\ \A g \in 1..MaxScanFiles : <<u, g>> \in lhist.occurrences => f <= g
DistinctUrls == {o[1] : o \in lhist.occurrences}

\* C15: each distinct external url is given to validateUrl exactly once, with
\* the first file in scan order in which it occurs as its source; there are as
\* many results as distinct urls.
C15_EachUrlCheckedOnce ==
    /\ \A i, j \in 1..Len(lhist.calls) : lhist.calls[i] = lhist.calls[j] => i = j
    /\ Range(lhist.calls) \subseteq DistinctUrls
    /\ \A i \in 1..Len(linkMap) : linkMap[i].source = FirstSource(linkMap[i].url)
    /\ RunCompleted
          => /\ Range(lhist.calls) = DistinctUrls
             /\ Len(results) = Cardinality(DistinctUrls)
             /\ \A i \in 1..Len(results) :
                   results[i].source = FirstSource(results[i].url)

\* a url read in both files, and one read twice in a file: six urls, six checks
C15_Witness ==
    /\ RunCompleted
    /\ Len(results) = CONCURRENCY + 1
    /\ \E u \in DistinctUrls : <<u, 1>> \in lhist.occurrences /\ <<u, 2>> \in lhist.occurrences
    /\ \E i \in 1..Len(results) : results[i].source = 2

\* C17 (as stated): checkExternalLinks exits with a failure status if and only
\* if a url has a result with success = false.
C17_ExitFailsIffBrokenLink ==
    lpc = "exited" => (lexit # <<0>> <=> \E i \in 1..Len(results) : ~results[i].success)

\* C17: checkExternalLinks exits with a failure status if and only if a url has
\* a result with success = false or scanning the files threw; when every url
\* succeeded, or no external url was found, it ends with status 0.
C17_ExitStatus ==
    lpc = "exited"
        => /\ lexit \in {<<0>>, <<1>>}
           /\ lexit = <<1>> <=> (lhist.threw \/ \E i \in 1..Len(results) : ~results[i].success)
           /\ ~lhist.threw => Len(results) = Len(linkMap)
           /\ (~lhist.threw /\ linkMap = <<>>) => (lexit = <<0>> /\ lhist.calls = <<>>)

\* one broken link among six is enough
C17_Witness ==
    /\ lpc = "exited" /\ lexit = <<1>> /\ ~lhist.threw
    /\ Len(results) = CONCURRENCY + 1
    /\ Cardinality({i \in 1..Len(results) : ~results[i].success}) = 1

(***************************************************************************)
(* Properties of validateUrl: failed requests.                             *)
(***************************************************************************)
\* the error text an exception is to be recorded with
RecordedAs(e, text) ==
    /\ e.name = "AbortError" => text = "Request timeout"
    /\ (e.name # "AbortError" /\ e.code = "ENOTFOUND") => text = "DNS lookup failed"
    /\ (e.name # "AbortError" /\ e.code = "ECONNREFUSED") => text = "Connection refused"

\* C16: an attempt that runs into the timeout (AbortError) is recorded with the
\* error 'Request timeout'; it does not end the check of the url, it uses up one
\* attempt, and the next attempt, if one remains, is made after the backoff
\* delay.  DNS failure and connection refused have their own error strings.
C16_TimeoutIsARetryableFailure ==
    /\ Len(uhist.sleeps) = (IF uhist.log = <<>> THEN 0 ELSE Len(uhist.log) - 1)
    /\ \A i \in 1..Len(uhist.log) :
        (AttemptOver(i) /\ AttemptOutcome(i).kind = "error")
            => /\ (i = Len(uhist.log) /\ upc = "loop")
                     => (attempt = i /\ RecordedAs(AttemptOutcome(i).error, lastError))
               /\ (i = Len(uhist.log) /\ i <= MAX_RETRIES)
                     => (upc = "loop" /\ ENABLED StartAttempt)
               /\ (i = Len(uhist.log) /\ upc = "done")
                     => /\ i = MAX_RETRIES + 1
                        /\ ~result.success
                        /\ RecordedAs(AttemptOutcome(i).error, result.error)
               /\ i < Len(uhist.log) => uhist.sleeps[i] = RETRY_DELAYS[i]

\* a timeout, a DNS failure, then a GET that times out: 'Request timeout'
C16_Witness ==
    /\ Exhaustion
    /\ uhist.log[1].head.kind = "error" /\ uhist.log[1].head.error.name = "AbortError"
    /\ uhist.log[2].head.kind = "error" /\ uhist.log[2].head.error.code = "ENOTFOUND"
    /\ uhist.log[3].get.kind = "error" /\ uhist.log[3].get.error.name = "AbortError"
    /\ uhist.sleeps = <<100, 200>>
    /\ result.error = "Request timeout"

(***************************************************************************)
(* Properties of checkLinks.                                               *)
(***************************************************************************)
\* the file name a link ends with: its last path component
RECURSIVE LastComponent(_)
LastComponent(l) ==
    IF \E i \in 1..Len(l) : l[i] = "/" THEN LastComponent(Tail(l)) ELSE l
NamesAFile(l) == l # <<>> /\ l[1] \notin {"http://", "https://"} /\ l[Len(l)] = ".md"
FileExists(name) == \E k \in 1..Len(ruleFiles) : ruleFiles[k] = name

\* the check of `link` recorded a violation, for that link and the file read
Recorded ==
    /\ Len(linkErrors) = ihist.before + 1
    /\ linkErrors[Len(linkErrors)].file = ruleFiles[ifile]
    /\ linkErrors[Len(linkErrors)].link = link
NothingRecorded == Len(linkErrors) = ihist.before

\* C18: for every internal (not http/https) link that ends in the recognized
\* extension .md, a violation is recorded if and only if no rule file has
\* exactly the name the link ends with.
C18_MissingFileIsAViolation ==
    (ihist.checked /\ NamesAFile(link))
        => /\ Recorded \/ NothingRecorded
           /\ Recorded <=> ~FileExists(LastComponent(link))

\* dir/a.md is checked in c.md with a.md in the rule set: no violation; then
\* c.md is checked with only C.md and a.md in the rule set: a violation
C18_Witness ==
    /\ ihist.checked
    /\ link = <<"c", ".md">>
    /\ ruleFiles = << <<"C", ".md">>, <<"a", ".md">> >>
    /\ Recorded

\* C19: no link that begins with '#' ever produces a violation, whatever its
\* text and whatever rule files exist.
C19_AnchorsNeverFail ==
    /\ (ihist.checked /\ link # <<>> /\ link[1] = "#") => NothingRecorded
    /\ \A k \in 1..Len(linkErrors) : linkErrors[k].link[1] # "#"

\* C20 (as stated): every file and link is scanned before the report, and the
\* process exits non-zero if and only if a violation was recorded.
C20_ExitFailsIffViolation ==
    ipc = "exited"
        => /\ ifile = Len(ruleFiles)
           /\ iexit # <<0>> <=> Len(linkErrors) > 0

\* C20: unless readdir or readFile throws, a violation never stops the scan:
\* every rule file has been read when checkLinks reports; no recorded violation
\* is ever dropped; the process exits non-zero if and only if a violation was
\* recorded or a read threw.
C20_AllViolationsThenExit ==
    /\ ihist.before <= Len(linkErrors)
    /\ (ihist.checked /\ Recorded) => ipc = "links"
    /\ ipc = "exited"
          => /\ iexit \in {<<0>>, <<1>>}
             /\ ~ihist.threw => ifile = Len(ruleFiles)
             /\ iexit = <<1>> <=> (Len(linkErrors) > 0 \/ ihist.threw)

\* a violation in the first file, another in the second, both reported
C20_Witness ==
    /\ ipc = "exited" /\ iexit = <<1>> /\ ~ihist.threw
    /\ Len(ruleFiles) = 2
    /\ Len(linkErrors) = 2
    /\ linkErrors[1].file = ruleFiles[1]
    /\ linkErrors[2].file = ruleFiles[2]

(***************************************************************************)
(* Properties of the SQL validator: a file that cannot be processed.       *)
(***************************************************************************)

\* the entries recorded so far are still there, in their places
EntriesKept == SubSeq(allErrors', 1, Len(allErrors)) = allErrors

\* the file whose parsing threw is named on the console, and the loop is back at
\* its head, where the files that remain are taken one by one
ParseErrorReported ==
    \A f \in hist.parseErrors :
        /\ ErrorProcessing(f) \in console
        /\ (file = f /\ ~hist.listed) => pc = "files"

\* C24: when parseRuleFile throws for a rule file, the error is reported naming
\* that file, the loop goes on to the files that remain (the report is reached
\* only from the end of the list, and every eligible snippet visited is
\* validated), and the entries recorded for earlier files are kept.
C24_ParseErrorIsolated ==
    /\ []ParseErrorReported
    /\ [](pc = "report" => hist.listed)
    /\ [](hist.calls = hist.eligible)
    /\ [][EntriesKept]_vars

\* the first file left an entry, the second could not be parsed, and the loop
\* went on to the end of the list with the entry still there
C24_Witness ==
    /\ 2 \in hist.parseErrors
    /\ Len(allErrors) > 0
    /\ allErrors[1].file = 1
    /\ pc = "report"

(***************************************************************************)
(* Properties of containsDangerousPatterns: the comments it removes.        *)
(***************************************************************************)
\* the text the patterns are matched against, before white space is collapsed
WithoutComments(s) == RemoveLineComments(RemoveBlockComments(s))

\* C26: what containsDangerousPatterns removes as a comment is never text the
\* engine would execute: a deny-listed call the engine reads in the snippet is
\* still read in the text left after the removal; and the snippet
\* SELECT '--', * FROM file(...) (its tokens: quote, dashes, quote, file, "(")
\* is classified as a security violation.
C26_RemovedTextIsNeverExecuted ==
    verdict.state # "input" =>
        /\ ContainsDenyListedCall(sql) => ContainsDenyListedCall(WithoutComments(sql))
        /\ sql = <<"'", "--", "'", "file", "(">> => IsSecurityError(verdict.call.returned)

(***************************************************************************)
(* Properties of validateUrl: the result.                                   *)
(***************************************************************************)
\* the last attempt of the history
FinalAttempt == AttemptOutcome(Len(uhist.log))

\* C27: when validateUrl returns success = false, statusCode and error describe
\* the final attempt: a final attempt that ended with a response has its status
\* and status line in the result, a final attempt that ended with a timeout or
\* a transport error has its error text and no statusCode.
C27_FailureDescribesFinalAttempt ==
    Exhaustion =>
        IF FinalAttempt.kind = "error"
        THEN /\ result.error = ErrorText(FinalAttempt.error)
             /\ result.statusCode = Undefined
        ELSE /\ result.error = StatusLine(FinalAttempt.status)
             /\ result.statusCode = FinalAttempt.status

\* C28: every result of validateUrl has 0 <= retriesUsed <= MAX_RETRIES; with
\* success it has a statusCode in 200..299 and no error; without success it has
\* a non-empty error; retriesUsed is the number of backoff sleeps of the call.
C28_ResultWellFormed ==
    upc = "done" =>
        /\ result.retriesUsed >= 0 /\ result.retriesUsed <= MAX_RETRIES
        /\ result.success
              => (result.statusCode >= 200 /\ result.statusCode <= 299 /\ result.error = "")
        /\ ~result.success => result.error # ""
        /\ result.retriesUsed = Len(uhist.sleeps)

\* a failure whose final attempt threw an exception without a message, after
\* all the retries
C28_Witness ==
    /\ Exhaustion
    /\ FinalAttempt.kind = "error" /\ FinalAttempt.error.message = ""
    /\ result.error = "Unknown error"
    /\ result.retriesUsed = MAX_RETRIES /\ Len(uhist.sleeps) = MAX_RETRIES

(***************************************************************************)
(* Properties of checkLinks: links with a fragment.                         *)
(***************************************************************************)
\* the link is name.md#fragment: a "#" right after the extension
HasFragment(l) == \E i \in 2..Len(l) : l[i] = "#" /\ l[i - 1] = ".md"

\* the link up to its "#"
WithoutFragment(l) == SubSeq(l, 1, FirstIndex(l, "#") - 1)

\* C30: an internal link name.md#fragment is checked like the link name.md: a
\* violation is recorded for it if and only if no rule file is named name.md.
C30_FragmentLinkIsChecked ==
    (ihist.checked /\ HasFragment(link) /\ NamesAFile(WithoutFragment(link)))
        => /\ Recorded \/ NothingRecorded
           /\ Recorded <=> ~FileExists(LastComponent(WithoutFragment(link)))

(***************************************************************************)
(* Properties of ensureClickHouse over several runs.                        *)
(***************************************************************************)
\* C29: ensureClickHouse reports the binary as found only when the file at the
\* binary path is the outcome of a completed acquisition, and then attempts no
\* download; a failed download (curl or chmod error) leaves no file at the
\* binary path, so that the next run downloads again.
C29_FoundOnlyAfterCompletedAcquisition ==
    /\ hist.acquisition = "found"
          => (binary = "present" /\ "Downloading" \notin console)
    /\ hist.acquisition = "download failed" => binary = "absent"

(***************************************************************************)
(* Termination of the external link checker.                                *)
(***************************************************************************)
\* validateUrlsBatch has returned: the loop over the batches is over
BatchesDone == lpc = "batch" /\ batchAt >= Len(linkMap)

\* results has one result for each url of linkInfos, in their order
OneResultPerUrl ==
    /\ Len(results) = Len(linkMap)
    /\ \A k \in 1..Len(results) : results[k].url = linkMap[k].url

\* C25: every fetch ending (with a response or by the timeout), each call of
\* validateUrl returns a result after at most MAX_RETRIES + 1 attempts, and
\* validateUrlsBatch returns with exactly one result for each url it was given.
C25_LinkChecksTerminate ==
    /\ [](upc # "parked" => Len(uhist.log) <= MAX_RETRIES + 1)
    /\ (upc = "loop") ~> (upc = "done" /\ Len(uhist.log) <= MAX_RETRIES + 1)
    /\ [](BatchesDone => OneResultPerUrl)
    /\ (lpc \in {"batch", "await"}) ~> (BatchesDone /\ OneResultPerUrl)

\* validateUrlsBatch returns the results of two batches
C25_Witness ==
    /\ BatchesDone
    /\ OneResultPerUrl
    /\ Len(linkMap) > CONCURRENCY

(***************************************************************************)
(* Properties of the structural validator.                                  *)
(***************************************************************************)
\* the violations reported for the rule of file f
ViolationsOf(f) == {k \in 1..Len(violations) : violations[k].file = f}

\* the files whose rule has been checked
Validated == 1..(IF vpc = "validate" THEN rulesRead - 1 ELSE rulesRead)

SameInputs(i, j) ==
    /\ bhist[i].ok /\ bhist[j].ok
    /\ ~bhist[i].upgrade /\ ~bhist[j].upgrade
    /\ bhist[i].before = bhist[j].before

\* the rank the section metadata declares for a prefix
RankOf(prefix) ==
    LET k == CHOOSE k \in 1..Len(SectionsMeta) : SectionsMeta[k].prefix = prefix
    IN  SectionsMeta[k].rank

\* the entries of a document: every rule file once, under the rank of its
\* section, sections by ascending rank, rules by ascending file name, the
\* rule index counting from 1 within each section
InOrder(entries) ==
    /\ {entries[k].file : k \in 1..Len(entries)} = rulesDir
    /\ Len(entries) = Cardinality(rulesDir)
    /\ \A k \in 1..Len(entries) : entries[k].number[1] = RankOf(entries[k].file.prefix)
    /\ entries # <<>> => entries[1].number[2] = 1
    /\ \A k \in 1..(Len(entries) - 1) :
          \/ /\ entries[k].number[1] < entries[k + 1].number[1]
             /\ entries[k + 1].number[2] = 1
          \/ /\ entries[k].number[1] = entries[k + 1].number[1]
             /\ entries[k].file.rest < entries[k + 1].file.rest
             /\ entries[k + 1].number[2] = entries[k].number[2] + 1

\* C22: two builds of the same unchanged rule set, section metadata and stored
\* version, neither in upgrade mode, write identical documents, whatever the
\* order in which the directory listing gave the files: the sections are in
\* the order of their ranks, the rules of a section in the order of their
\* file names, and the numbers follow from these two orders.
C22_BuildIsDeterministic ==
    /\ \A i, j \in 1..Len(bhist) :
          SameInputs(i, j) => bhist[i].document = bhist[j].document
    /\ \A i \in 1..Len(bhist) : bhist[i].ok => InOrder(bhist[i].document.entries)

\* two builds of three rule files that the listing gave in different orders
C22_Witness ==
    /\ Len(bhist) = 2
    /\ SameInputs(1, 2)
    /\ bhist[1].listing # bhist[2].listing
    /\ Len(bhist[1].document.entries) = 3
    /\ bhist[1].document = bhist[2].document

\* version a is not later than version b
VersionLeq(a, b) ==
    \/ a[1] < b[1]
    \/ a[1] = b[1] /\ a[2] < b[2]
    \/ a[1] = b[1] /\ a[2] = b[2] /\ a[3] <= b[3]

\* C23: a build in upgrade mode that completes takes the version as the build
\* before it left it in the store, adds exactly one to its patch component
\* and stores the result; a build invoked normally leaves the stored version
\* as it is; over every sequence of builds the stored version never
\* decreases and changes in upgrade-mode builds only.
C23_VersionBump ==
    /\ \A i \in 1..Len(bhist) :
        /\ i > 1 => bhist[i].before = bhist[i - 1].after
        /\ (bhist[i].upgrade /\ bhist[i].ok)
              => bhist[i].after = <<bhist[i].before[1], bhist[i].before[2],
                                    bhist[i].before[3] + 1>>
        /\ ~bhist[i].upgrade => bhist[i].after = bhist[i].before
        /\ VersionLeq(bhist[i].before, bhist[i].after)
    /\ bhist # <<>> => version = bhist[Len(bhist)].after

\* 1.0.9 upgraded twice: 1.0.10, then 1.0.11
C23_Witness ==
    /\ Len(bhist) = 2
    /\ bhist[1].upgrade /\ bhist[2].upgrade
    /\ bhist[1].before = <<1, 0, 9>>
    /\ version = <<1, 0, 11>>
    /\ document.version = <<1, 0, 11>>

====
